---- MODULE Spec2Model ----
(***************************************************************************)
(* textio: token extraction from byte sources.                             *)
(*                                                                         *)
(* The module models                                                       *)
(*   - pattern.find / pattern.enabled and Delimiter.SplitFunc of the       *)
(*     token+stop Delimiter (src/unnamed/part_003),                        *)
(*   - Delimiter.SplitFunc of the regexpr/str Delimiter                    *)
(*     (src/unnamed/part_002),                                             *)
(*   - Reader.createSplitFunc, Reader.ReadTokens and Reader.StreamTokens   *)
(*     of src/reader.go,                                                   *)
(*   - Reader.ReadTokens and Reader.StreamTokens of src/unnamed/part_000   *)
(*     (the read loops that are driven by a Delimiter's SplitFunc),        *)
(*   - the bufio.Scanner that drives every split function: it calls the    *)
(*     split function on the bytes read so far, reads again when the       *)
(*     split function asks for more, and passes atEOF once the source      *)
(*     has returned an error (io.EOF or any other).                        *)
(*                                                                         *)
(* Bytes are one-character strings, byte slices are sequences of them.     *)
(* A compiled expression is one of the shapes [c], [c]+, [c]?, [c]* over a *)
(* set c of bytes (regexp.FindIndex: leftmost match, greedy repetition).   *)
(* bufio.Scanner follows Go >= 1.22: ErrFinalToken with a nil token ends   *)
(* the scan without delivering a token.                                    *)
(***************************************************************************)
EXTENDS Integers, Sequences, FiniteSets, TLC

VARIABLES
    cfg,      \* the Reader under test: its fields, fixed for one read
    method,   \* the read call: "ReadTokens" | "StreamTokens"
    input,    \* history: all the bytes the source holds at the start
    reads,    \* history: the chunks the source returns, one per Read
    src,      \* the chunks the byte source has still to return, one per Read
    srcEnd,   \* what the source returns after its last chunk: "EOF" | "fail"
    buf,      \* bufio.Scanner: buf[start:end], the bytes read and not consumed
    serr,     \* bufio.Scanner: s.err, "nil" | "EOF" | "fail"
    done,     \* bufio.Scanner: s.done
    empties,  \* bufio.Scanner: s.empties
    cur,      \* scanner.Text() of the token the loop body is about to handle
    pc,       \* where the read call is: "scan" | "read" | "body" | "send" | "exit" | "returned" | "panic"
    ntoken,   \* the loop's variable token, after the normalizer
    tokens,   \* ReadTokens: the slice tokens
    out,      \* StreamTokens: the tokens the channel out has taken
    ctx,      \* StreamTokens: the context, "live" | "cancelled"
    recv,     \* StreamTokens: a consumer is blocked in a receive on the channel out
    parked,   \* StreamTokens: the select found no case ready and blocks
    outClosed,\* StreamTokens: the channel out is closed
    n,        \* the running offset n
    err,      \* the error the read call returned
    last,     \* the latest split call: its arguments and results
    emitted,  \* history: every token Scan() has delivered
    calls,    \* history: every call of the normalizer and of the filter
    readerObjs, \* the Reader structs allocated, by address
    closerObjs, \* the ReaderCloser structs allocated, by address
    closeCalls, \* history: the resources Close() has been called on, in order
    ret,      \* the latest configuration call: receiver, result, error
    delimObjs,    \* the Delimiter structs of part_003 allocated, by address
    delim002Objs, \* the Delimiter structs of part_002 allocated, by address
    goReader,     \* the Reader struct of reader.go
    held          \* the Delimiter a Reader of part_000 holds, and the one a split function holds

\* the variables of a read call, and those of the configuration objects
scanVars == <<cfg, method, input, reads, src, srcEnd, buf, serr, done, empties, cur, pc, ntoken, tokens,
              out, ctx, recv, parked, outClosed, n, err, last, emitted, calls>>
confVars == <<readerObjs, closerObjs, closeCalls, ret>>
delimVars == <<delimObjs, delim002Objs, goReader, held>>

vars == <<cfg, method, input, reads, src, srcEnd, buf, serr, done, empties, cur, pc, ntoken, tokens, out,
          ctx, recv, parked, outClosed, n, err, last, emitted, calls,
          readerObjs, closerObjs, closeCalls, ret,
          delimObjs, delim002Objs, goReader, held>>

(***************************************************************************)
(* Bounds of the model.                                                    *)
(***************************************************************************)
MaxLen == 4       \* longest input, in bytes
MaxChunks == 2    \* most Reads that return bytes
MaxRead == 2
MaxSets == 4      \* most calls on the Delimiters
MaxCalls == 3     \* most configuration calls
MaxTokens == 8    \* most tokens one scanner is followed for

(***************************************************************************)
(* Byte slices.                                                            *)
(***************************************************************************)
NL == "\n"
SP == " "

Take(s, k) == SubSeq(s, 1, k)
Drop(s, k) == SubSeq(s, k + 1, Len(s))

MinOf(S) == CHOOSE i \in S : \A j \in S : i <= j

\* unicode.IsSpace on the bytes of the model
IsSpace(b) == b \in {SP, NL}

\* bytes.Index(data, sep), strings.Index: 0-based index of the leftmost
\* occurrence of sep in data, -1 when there is none
Index(data, sep) ==
    LET hits == { i \in 0..(Len(data) - Len(sep)) : SubSeq(data, i + 1, i + Len(sep)) = sep }
    IN  IF hits = {} THEN -1 ELSE MinOf(hits)

(***************************************************************************)
(* Compiled expressions: [cls], [cls]+, [cls]?, [cls]*.                    *)
(***************************************************************************)
NilRe == [isNil |-> TRUE, cls |-> {}, many |-> FALSE, star |-> FALSE]
Re(c, many, star) == [isNil |-> FALSE, cls |-> c, many |-> many, star |-> star]

\* length of the run of bytes of cls that starts at 0-based index i
RunLen(data, i, cls) ==
    LET ends == { j \in i..Len(data) : \A k \in (i + 1)..j : data[k] \in cls }
    IN  CHOOSE j \in ends : \A k \in ends : k <= j

\* regexp.FindIndex(data): loc[0] and loc[1]-loc[0] of the leftmost match,
\* idx = -1 for a nil loc
FindIndex(re, data) ==
    LET hits == { i \in 0..(Len(data) - 1) : data[i + 1] \in re.cls }
        from == IF re.star THEN 0 ELSE MinOf(hits)
        run  == RunLen(data, from, re.cls) - from
        w    == IF re.many THEN run ELSE IF run > 0 THEN 1 ELSE 0
    IN  IF ~re.star /\ hits = {} THEN [idx |-> -1, width |-> 0]
        ELSE [idx |-> from, width |-> w]

(***************************************************************************)
(* pattern (part_003): a compiled expression re and a literal str.         *)
(***************************************************************************)
Pattern(re, str) == [re |-> re, str |-> str]
NoPattern == Pattern(NilRe, <<>>)

\* pattern.enabled
enabled(p) == ~p.re.isNil \/ p.str # <<>>

\* pattern.find
find(p, data) ==
    IF ~p.re.isNil THEN FindIndex(p.re, data)
    ELSE IF p.str # <<>>
         THEN LET idx == Index(data, p.str)
              IN  IF idx < 0 THEN [idx |-> -1, width |-> 0]
                  ELSE [idx |-> idx, width |-> Len(p.str)]
         ELSE [idx |-> -1, width |-> 0]

(***************************************************************************)
(* Split functions. A result is (advance, token, err); token is nil when   *)
(* nilToken holds.                                                         *)
(***************************************************************************)
SplitResult(adv, tok, isNil, e) == [advance |-> adv, token |-> tok, nilToken |-> isNil, err |-> e]
\* variant: a request for more data that consumes a byte
NeedMoreAdvances == SplitResult(1, <<>>, TRUE, "nil")
NeedMore == SplitResult(0, <<>>, TRUE, "nil")

\* Delimiter.SplitFunc (part_003): the token pattern and the stop pattern
StopWins(tokenIdx, stopIdx) == stopIdx >= 0 /\ (tokenIdx < 0 \/ stopIdx < tokenIdx)

\* variants: a stop match at index 0 that is skipped and does not end the
\* scan; a remainder at end of input that is consumed and not delivered
DelimiterSplitFuncSkipsStop(d, data, atEOF) ==
    LET tk == find(d.token, data)
        st == IF enabled(d.stop) THEN find(d.stop, data) ELSE [idx |-> -1, width |-> 0]
    IN  IF atEOF /\ Len(data) = 0 THEN SplitResult(0, <<>>, TRUE, "ErrFinalToken")
        ELSE IF StopWins(tk.idx, st.idx)
             THEN IF st.idx > 0 THEN SplitResult(st.idx, Take(data, st.idx), FALSE, "nil")
                  ELSE SplitResult(st.width, <<>>, TRUE, "nil")
        ELSE IF tk.idx >= 0 THEN SplitResult(tk.idx + tk.width, Take(data, tk.idx), FALSE, "nil")
        ELSE IF atEOF THEN SplitResult(Len(data), data, FALSE, "nil")
        ELSE NeedMore

DelimiterSplitFuncDropsTail(d, data, atEOF) ==
    LET tk == find(d.token, data)
        st == IF enabled(d.stop) THEN find(d.stop, data) ELSE [idx |-> -1, width |-> 0]
    IN  IF atEOF /\ Len(data) = 0 THEN SplitResult(0, <<>>, TRUE, "ErrFinalToken")
        ELSE IF StopWins(tk.idx, st.idx)
             THEN IF st.idx > 0 THEN SplitResult(st.idx, Take(data, st.idx), FALSE, "nil")
                  ELSE SplitResult(st.width, <<>>, TRUE, "ErrFinalToken")
        ELSE IF tk.idx >= 0 THEN SplitResult(tk.idx + tk.width, Take(data, tk.idx), FALSE, "nil")
        ELSE IF atEOF THEN SplitResult(Len(data), <<>>, TRUE, "nil")
        ELSE NeedMore

\* variant: at end of input with nothing left, an empty final token
DelimiterSplitFuncEmptyFinal(d, data, atEOF) ==
    LET tk == find(d.token, data)
        st == IF enabled(d.stop) THEN find(d.stop, data) ELSE [idx |-> -1, width |-> 0]
    IN  IF atEOF /\ Len(data) = 0 THEN SplitResult(0, <<>>, FALSE, "ErrFinalToken")
        ELSE IF StopWins(tk.idx, st.idx)
             THEN IF st.idx > 0 THEN SplitResult(st.idx, Take(data, st.idx), FALSE, "nil")
                  ELSE SplitResult(st.width, <<>>, TRUE, "ErrFinalToken")
        ELSE IF tk.idx >= 0 THEN SplitResult(tk.idx + tk.width, Take(data, tk.idx), FALSE, "nil")
        ELSE IF atEOF THEN SplitResult(Len(data), data, FALSE, "nil")
        ELSE NeedMore

DelimiterSplitFunc(d, data, atEOF) ==
    LET tk == find(d.token, data)
        st == IF enabled(d.stop) THEN find(d.stop, data) ELSE [idx |-> -1, width |-> 0]
    IN  IF atEOF /\ Len(data) = 0 THEN SplitResult(0, <<>>, TRUE, "ErrFinalToken")
        ELSE IF StopWins(tk.idx, st.idx)
             THEN IF st.idx > 0 THEN SplitResult(st.idx, Take(data, st.idx), FALSE, "nil")
                  ELSE SplitResult(st.width, <<>>, TRUE, "ErrFinalToken")
        ELSE IF tk.idx >= 0 THEN SplitResult(tk.idx + tk.width, Take(data, tk.idx), FALSE, "nil")
        ELSE IF atEOF THEN SplitResult(Len(data), data, FALSE, "nil")
        ELSE NeedMore

\* bufio.ScanLines, the fallback of createSplitFunc
dropCR(data) == IF Len(data) > 0 /\ data[Len(data)] = "\r" THEN Take(data, Len(data) - 1) ELSE data

ScanLines(data, atEOF) ==
    LET i == Index(data, <<NL>>)
    IN  IF atEOF /\ Len(data) = 0 THEN NeedMore
        ELSE IF i >= 0 THEN SplitResult(i + 1, dropCR(Take(data, i)), FALSE, "nil")
        ELSE IF atEOF THEN SplitResult(Len(data), dropCR(data), FALSE, "nil")
        ELSE NeedMore

\* Reader.createSplitFunc (reader.go) and Delimiter.SplitFunc (part_002):
\* p.re is the compiled delimiter, p.str the literal one
reSplitFunc(p, data, atEOF) ==
    LET loc == FindIndex(p.re, data)
        i   == Index(data, p.str)
    IN  IF atEOF /\ Len(data) = 0 THEN NeedMore
        ELSE IF ~p.re.isNil /\ loc.idx >= 0
             THEN SplitResult(loc.idx + loc.width, Take(data, loc.idx), FALSE, "nil")
        ELSE IF p.re.isNil /\ p.str # <<>> /\ i >= 0
             THEN SplitResult(i + Len(p.str), Take(data, i), FALSE, "nil")
        ELSE IF atEOF THEN SplitResult(Len(data), data, FALSE, "nil")
        ELSE NeedMore

\* variant: at the end of the input the bytes left are returned as a token
\* and stay in the buffer
createSplitFuncHoldsTail(r, data, atEOF) ==
    LET res == reSplitFunc(r.delimiter, data, atEOF)
    IN  IF atEOF /\ ~res.nilToken /\ res.advance = Len(res.token)
        THEN SplitResult(0, res.token, FALSE, "nil")
        ELSE res
createSplitFunc(r, data, atEOF) ==
    IF r.delimiter.re.isNil /\ r.delimiter.str = <<>>
    THEN ScanLines(data, atEOF)
    ELSE reSplitFunc(r.delimiter, data, atEOF)

\* the split function the Reader r hands to scanner.Split
Split(r, data, atEOF) ==
    IF r.loop = "reader.go" THEN createSplitFunc(r, data, atEOF)
    ELSE IF r.dkind = "part_002" THEN reSplitFunc(r.delimiter, data, atEOF)
    ELSE DelimiterSplitFunc(r.d, data, atEOF)

(***************************************************************************)
(* Normalizers and filters.                                                *)
(***************************************************************************)
\* strings.TrimSpace
RECURSIVE TrimLeft(_)
TrimLeft(s) == IF s # <<>> /\ IsSpace(s[1]) THEN TrimLeft(Tail(s)) ELSE s
RECURSIVE TrimRight(_)
TrimRight(s) == IF s # <<>> /\ IsSpace(s[Len(s)]) THEN TrimRight(Take(s, Len(s) - 1)) ELSE s
NormalizeTrimSpace(s) == TrimRight(TrimLeft(s))

\* r.normalize(token), r.normalize # nil
normalize(r, s) == IF r.normalize = "NormalizeTrimSpace" THEN NormalizeTrimSpace(s) ELSE s

\* FilterMinLength(k)
FilterMinLength(k, s) == Len(s) >= k

\* r.filter(token), r.filter # nil
filter(r, s) == FilterMinLength(r.filter.min, s)

NoFilter == [isNil |-> TRUE, min |-> 0]
MinLength(k) == [isNil |-> FALSE, min |-> k]

(***************************************************************************)
(* Errors (errors.go).                                                     *)
(***************************************************************************)
NoError == [Kind |-> "nil", Err |-> "nil", Token |-> <<>>, Index |-> -1]
newErrInvalid(token, index) == [Kind |-> "ErrInvalid", Err |-> "nil", Token |-> token, Index |-> index]
\* variant: an ErrRead that does not wrap the scanner's error
newErrReadUnwrapped(e) == [Kind |-> "ErrRead", Err |-> "nil", Token |-> <<>>, Index |-> -1]
newErrRead(e) == [Kind |-> "ErrRead", Err |-> e, Token |-> <<>>, Index |-> -1]
\* ReaderError.Is and ReaderError.Unwrap, and errors.Is over the chain of a
\* ReaderError and its cause
Is(e, target) == e.Kind = target
\* variant: an error without a chain
UnwrapNothing(e) == "nil"
Unwrap(e) == e.Err
errorsIs(e, target) == Is(e, target) \/ Unwrap(e) = target
\* ctx.Err() of a cancelled context
ctxErr == [Kind |-> "context.Canceled", Err |-> "nil", Token |-> <<>>, Index |-> -1]

NoCall == [data |-> <<>>, atEOF |-> FALSE, advance |-> 0, token |-> <<>>, nilToken |-> TRUE,
           err |-> "nil", called |-> FALSE]

(***************************************************************************)
(* Readers. One record holds the fields of the Reader of reader.go         *)
(* (delimiter, delimiterStr as the pattern delimiter) and of the Reader of *)
(* part_000 (a part_002 Delimiter as the pattern delimiter, or a part_003  *)
(* Delimiter d; endDelimiter, NoPattern for nil).                          *)
(***************************************************************************)
Reader(loop, dkind, delimiter, d, nrm, flt, foe, foi) ==
    [loop |-> loop, dkind |-> dkind, delimiter |-> delimiter, d |-> d,
     endDelimiter |-> NoPattern, normalize |-> nrm, filter |-> flt,
     UserContext |-> "nil", FailOnError |-> foe, FailOnInvalid |-> foi]

\* r.UserContext = v (part_005): the value ReadAll hands to the normalizer and
\* to the filter
SetUserContext(r, v) == [r EXCEPT !.UserContext = v]

Delimiter(token, stop) == [token |-> token, stop |-> stop]

\* DefaultDelimiter (part_003)
\* variant: a default Delimiter without a stop pattern
DefaultDelimiterNoStop == Delimiter(Pattern(NilRe, <<NL>>), NoPattern)
DefaultDelimiter == Delimiter(Pattern(NilRe, <<NL>>), Pattern(NilRe, <<NL, NL>>))

\* the sources of the model: every input of at most MaxLen bytes over the
\* alphabet A, returned by the source in at most MaxChunks Reads
Inputs(A) == UNION { [1..k -> A] : k \in 0..MaxLen }

RECURSIVE Chunkings(_, _)
Chunkings(s, k) ==
    IF s = <<>> THEN { <<>> }
    ELSE IF k <= 1 THEN { <<s>> }
    ELSE UNION { { <<Take(s, i)>> \o c : c \in Chunkings(Drop(s, i), k - 1) } : i \in 1..Len(s) }

RECURSIVE Concat(_)
Concat(ss) == IF ss = <<>> THEN <<>> ELSE Head(ss) \o Concat(Tail(ss))

\* An io.Reader is the sequence of the chunks its Reads return. A
\* strings.Reader returns its string in one Read.
NewStringReader(s) == IF s = <<>> THEN <<>> ELSE <<s>>

\* io.MultiReader: the Reads of the readers, one reader after the other
MultiReader(readers) == Concat(readers)

\* Reader.SetReaders: the new value of the field reader
SetReaders(readers) == MultiReader(readers)

\* Reader.AddReaders, reader being the field's value: the new value
AddReaders(reader, readers) == SetReaders(<<reader>> \o readers)

\* the policies of the model: a filter with either FailOnInvalid, and a
\* failing source with either FailOnError
Policy(flt, foi, foe, end) == [filter |-> flt, foi |-> foi, foe |-> foe, srcEnd |-> end]

Policies ==
    { Policy(NoFilter, FALSE, TRUE, "EOF"),
      Policy(MinLength(2), FALSE, TRUE, "EOF"),
      Policy(MinLength(2), TRUE, TRUE, "EOF"),
      Policy(NoFilter, FALSE, TRUE, "fail"),
      Policy(NoFilter, FALSE, FALSE, "fail"),
      Policy(MinLength(2), TRUE, TRUE, "fail") }

ReaderAlphabet == {"a", SP, ","}

ReaderDelimiters ==
    { Pattern(NilRe, <<",">>),
      Pattern(NilRe, <<",", ",">>),
      Pattern(Re({",", SP}, TRUE, FALSE), <<>>) }

InitScanner ==
    /\ buf = <<>>
    /\ serr = "nil"
    /\ done = FALSE
    /\ empties = 0
    /\ cur = <<>>
    /\ pc = IF method = "Read" THEN "call" ELSE "scan"
    /\ ntoken = <<>>
    /\ tokens = <<>>
    /\ out = <<>>
    /\ ctx = "live"
    /\ recv = FALSE
    /\ parked = FALSE
    /\ outClosed = FALSE
    /\ n = 0
    /\ err = NoError
    /\ last = NoCall
    /\ emitted = <<>>
    /\ calls = <<>>

\* the read calls are studied with no configuration call made
NoRet == [n |-> 0, type |-> "none", op |-> "none", recv |-> 0, new |-> 0, err |-> NoError]

NoObjects ==
    /\ readerObjs = <<>>
    /\ closerObjs = <<>>
    /\ closeCalls = <<>>
    /\ ret = NoRet

\* the Delimiter of part_002 (regexpr, str) and its literal setter
DefaultDelimiter002 == Pattern(NilRe, <<NL>>)
SetStr(d, s) == [d EXCEPT !.re = NilRe, !.str = IF s = <<>> THEN <<NL>> ELSE s]

\* NewReader of reader.go and its literal setter (delimiterStr is the str of
\* the pattern delimiter, the compiled delimiter its re)
NewReader_reader_go ==
    Reader("reader.go", "none", Pattern(NilRe, <<NL>>), Delimiter(NoPattern, NoPattern),
           "NormalizeTrimSpace", NoFilter, TRUE, FALSE)
\* variant: a setter that stores the empty string
SetDelimiterStrAsGiven(r, s) == [r EXCEPT !.delimiter = Pattern(NilRe, s)]
SetDelimiterStr(r, s) ==
    [r EXCEPT !.delimiter = Pattern(NilRe, IF s = <<>> THEN <<NL>> ELSE s)]

\* Reader.SetEndDelimiter of part_000, on the struct r
SetEndDelimiter(r, d) == [r EXCEPT !.endDelimiter = d]

\* the literal arguments of the setters
ArgStrs == {<<>>, <<"e">>}

(***************************************************************************)
(* The Delimiter objects and their configuration calls: the Delimiter of   *)
(* part_003 (token and stop pattern), the Delimiter of part_002 (regexpr   *)
(* or str) and the delimiter fields of the Reader of reader.go. A pointer  *)
(* is the index of a struct in delimObjs or delim002Objs. The Reader of    *)
(* part_000 keeps the pointer it is given, and the function SplitFunc      *)
(* returns keeps its receiver d and reads d.token and d.stop at each call. *)
(***************************************************************************)
\* regexp.MustCompile: a one-byte expression, or the empty expression, which
\* matches the empty string
MustCompile(expr) == IF expr = <<>> THEN Re({}, FALSE, TRUE) ELSE Re({expr[1]}, FALSE, FALSE)

\* the arguments of the calls: nil or a compiled expression, the empty or a
\* one-byte string (ArgStrs), the empty or a one-byte expression source
ArgRegexps == {NilRe, Re({"e"}, FALSE, FALSE)}
ArgExprs == {<<>>, <<"e">>}

\* the setters of the Delimiter of part_003, on the struct d
\* variant: a setter that leaves the literal in place
SetTokenRegexpKeepsStr(d, regexpr) == [d EXCEPT !.token.re = regexpr]
SetTokenRegexp(d, regexpr) == [d EXCEPT !.token.re = regexpr, !.token.str = <<>>]
SetTokenStr(d, s) == [d EXCEPT !.token.re = NilRe, !.token.str = s]
SetTokenRegexpFromString(d, expr) ==
    [d EXCEPT !.token.re = MustCompile(expr), !.token.str = <<>>]
SetStopRegexp(d, regexpr) == [d EXCEPT !.stop.re = regexpr, !.stop.str = <<>>]
SetStopStr(d, s) == [d EXCEPT !.stop.re = NilRe, !.stop.str = s]
SetStopRegexpFromString(d, expr) ==
    [d EXCEPT !.stop.re = MustCompile(expr), !.stop.str = <<>>]

\* the With* of part_003, on the copy d of the receiver
WithTokenRegexp(d, regexpr) == [d EXCEPT !.token = Pattern(regexpr, <<>>)]
WithTokenStr(d, s) == [d EXCEPT !.token = Pattern(NilRe, s)]
WithTokenRegexpFromString(d, s) == [d EXCEPT !.token = Pattern(MustCompile(s), <<>>)]
WithStopRegexp(d, regexpr) == [d EXCEPT !.stop = Pattern(regexpr, <<>>)]
WithStopStr(d, s) == [d EXCEPT !.stop = Pattern(NilRe, s)]
WithStopRegexpFromString(d, s) == [d EXCEPT !.stop = Pattern(MustCompile(s), <<>>)]

\* the setters and the With* of the Delimiter of part_002
SetRegexp(d, regexpr) ==
    [d EXCEPT !.re = IF regexpr.isNil THEN MustCompile(<<NL>>) ELSE regexpr, !.str = <<>>]
SetRegexpFromString(d, expr) == [d EXCEPT !.re = MustCompile(expr), !.str = <<>>]
WithRegexp(d, regexpr) == SetRegexp(d, regexpr)
WithStr(d, s) == SetStr(d, s)
WithRegexpFromString(d, s) == SetRegexpFromString(d, s)

\* Reader.SetDelimiter and Reader.SetDelimiterFromString of reader.go
SetDelimiterRegexp(r, regexpr) == [r EXCEPT !.delimiter = Pattern(regexpr, <<>>)]
SetDelimiterFromString(r, expr) == [r EXCEPT !.delimiter = Pattern(MustCompile(expr), <<>>)]

\* the zero value of the Reader of reader.go
ZeroReader ==
    Reader("reader.go", "none", NoPattern, Delimiter(NoPattern, NoPattern), "nil", NoFilter,
           FALSE, FALSE)

NoHolder == [reader |-> 0, split |-> 0]

NoDelimiters ==
    /\ delimObjs = <<>>
    /\ delim002Objs = <<>>
    /\ goReader = ZeroReader
    /\ held = NoHolder

\* the policies and delimiters StreamTokens is run with
StreamPolicies ==
    { Policy(MinLength(2), FALSE, TRUE, "EOF"),
      Policy(MinLength(2), TRUE, TRUE, "EOF"),
      Policy(NoFilter, FALSE, TRUE, "fail"),
      Policy(NoFilter, FALSE, FALSE, "fail") }

StreamDelimiters ==
    { Pattern(NilRe, <<",">>) }

\* a Reader of reader.go, configured, at the start of ReadTokens or of
\* StreamTokens; its sources are strings, the first k given to SetReaders and
\* the others to AddReaders
Init ==
    /\ \/ /\ method = "ReadTokens"
          /\ \E p \in Policies, dl \in ReaderDelimiters, nrm \in {"nil", "NormalizeTrimSpace"} :
                /\ cfg = Reader("reader.go", "none", dl, Delimiter(NoPattern, NoPattern), nrm,
                                p.filter, p.foe, p.foi)
                /\ srcEnd = p.srcEnd
          \* ReadAll of part_005: the same loop, with a user context
       \/ /\ method = "ReadTokens"
          /\ \E p \in Policies :
                /\ cfg = SetUserContext(Reader("reader.go", "none", Pattern(NilRe, <<",">>),
                                               Delimiter(NoPattern, NoPattern),
                                               "NormalizeTrimSpace", p.filter, p.foe, p.foi),
                                        "uctx")
                /\ srcEnd = p.srcEnd
       \/ /\ method = "StreamTokens"
          /\ \E p \in StreamPolicies, dl \in StreamDelimiters, nrm \in {"nil", "NormalizeTrimSpace"} :
                /\ cfg = Reader("reader.go", "none", dl, Delimiter(NoPattern, NoPattern), nrm,
                                p.filter, p.foe, p.foi)
                /\ srcEnd = p.srcEnd
       \/ /\ method = "Read"
          /\ cfg = Reader("reader.go", "none", Pattern(NilRe, <<",">>), Delimiter(NoPattern, NoPattern),
                          "NormalizeTrimSpace", NoFilter, TRUE, FALSE)
          /\ srcEnd \in {"EOF", "fail"}
    /\ input \in Inputs(ReaderAlphabet)
    /\ \E ss \in Chunkings(input, MaxChunks), k \in 0..MaxChunks :
          /\ k <= Len(ss)
          /\ src = AddReaders(SetReaders([i \in 1..k |-> NewStringReader(ss[i])]),
                              [i \in 1..(Len(ss) - k) |-> NewStringReader(ss[k + i])])
    /\ reads = src
    /\ InitScanner
    /\ NoObjects
    /\ NoDelimiters

(***************************************************************************)
(* bufio.Scanner.Scan, in two steps of its loop.                           *)
(***************************************************************************)
\* variant: a source that blocks once its bytes are read, and never ends
ScanReadNoEnd ==
    /\ UNCHANGED <<confVars, delimVars>>
    /\ pc = "read" \/ (pc = "scan" /\ ~done /\ buf = <<>> /\ serr = "nil")
    /\ src # <<>>
    /\ buf' = buf \o Head(src)
    /\ src' = Tail(src)
    /\ pc' = "scan"
    /\ empties' = 0
    /\ UNCHANGED <<cfg, method, input, reads, recv, parked, outClosed, srcEnd, serr, done, cur, ntoken, tokens, out, ctx, n, err, last,
                   emitted, calls>>

\* the Read of the loop: the source returns its next chunk, or its final error
ScanRead ==
    /\ UNCHANGED <<confVars, delimVars>>
    /\ pc = "read" \/ (pc = "scan" /\ ~done /\ buf = <<>> /\ serr = "nil")
    /\ IF src = <<>>
       THEN /\ serr' = srcEnd
            /\ UNCHANGED <<src, buf>>
       ELSE /\ buf' = buf \o Head(src)
            /\ src' = Tail(src)
            /\ serr' = serr
    /\ pc' = "scan"
    /\ empties' = IF src = <<>> THEN empties ELSE 0
    /\ UNCHANGED <<cfg, method, input, reads, recv, parked, outClosed, srcEnd, done, cur, ntoken, tokens, out, ctx, n, err, last,
                   emitted, calls>>

\* the split call of the loop and what Scan does with its result
ScanSplit ==
    /\ UNCHANGED <<confVars, delimVars>>
    /\ pc = "scan" /\ ~done
    /\ buf # <<>> \/ serr # "nil"
    /\ Len(emitted) < MaxTokens
    /\ LET r == Split(cfg, buf, serr # "nil")
           stuck == ~r.nilToken /\ serr # "nil" /\ r.advance = 0
       IN  /\ last' = [data |-> buf, atEOF |-> serr # "nil", advance |-> r.advance,
                       token |-> r.token, nilToken |-> r.nilToken, err |-> r.err,
                       called |-> TRUE]
           /\ IF r.err = "ErrFinalToken"
              THEN /\ done' = TRUE
                   /\ pc' = IF r.nilToken THEN "exit" ELSE "body"
                   /\ UNCHANGED <<buf, empties>>
              ELSE /\ done' = done
                   /\ buf' = IF r.nilToken /\ serr # "nil" THEN <<>> ELSE Drop(buf, r.advance)
                   /\ empties' = IF r.nilToken THEN empties ELSE IF stuck THEN empties + 1 ELSE 0
                   /\ pc' = IF ~r.nilToken
                            THEN (IF stuck /\ empties + 1 > 100 THEN "panic" ELSE "body")
                            ELSE IF serr # "nil" THEN "exit" ELSE "read"
           /\ cur' = IF r.nilToken THEN cur ELSE r.token
           /\ emitted' = IF r.nilToken \/ pc' = "panic" THEN emitted ELSE Append(emitted, r.token)
    /\ UNCHANGED <<cfg, method, input, reads, recv, parked, outClosed, src, srcEnd, serr, ntoken, tokens, out, ctx, n, err, calls>>

(***************************************************************************)
(* Reader.ReadTokens and Reader.StreamTokens (reader.go, part_000): the     *)
(* body of the loop and its exit. The two files differ in the test that    *)
(* leaves the loop, the two methods in what they do with an accepted       *)
(* token.                                                                  *)
(***************************************************************************)
\* Delimiter.MatchString (part_002)
MatchString(p, s) ==
    IF ~p.re.isNil THEN FindIndex(p.re, s).idx >= 0 ELSE Index(s, p.str) >= 0

\* the test that leaves the loop: an empty token (reader.go), a token the end
\* delimiter matches (part_000)
BreakOnEndDelimiterOnly(r, token) ==
    enabled(r.endDelimiter) /\ MatchString(r.endDelimiter, token)

\* variant: a loop that no token ends
BreakNever(r, token) == FALSE

Break(r, token) ==
    IF r.loop = "reader.go" THEN token = <<>>
    ELSE enabled(r.endDelimiter) /\ MatchString(r.endDelimiter, token)

Normalized(r, token) == IF r.normalize # "nil" THEN normalize(r, token) ELSE token
\* the text the filter is called with
FilterArgRaw(r, raw, token) == raw
FilterArg(r, raw, token) == token
Rejected(r, token) == ~r.filter.isNil /\ ~filter(r, token)

\* what the loop does with a normalized token
OutcomeSkipsRejected(r, token) == IF Rejected(r, token) THEN "Skipped" ELSE "Accepted"
OutcomeFailsRejected(r, token) == IF Rejected(r, token) THEN "Rejected" ELSE "Accepted"

Outcome(r, token) ==
    IF Rejected(r, token) THEN (IF r.FailOnInvalid THEN "Rejected" ELSE "Skipped")
    ELSE "Accepted"

\* n += len(token): the running offset after a token that is accepted or
\* skipped. Variant: an offset that counts a delimiter of one byte as well.
OffsetWithDelimiter(k, token) == k + Len(token) + 1
Offset(k, token) == k + Len(token)

\* a call of the normalizer or of the filter: r.normalize(token, r.UserContext)
\* variant: a call that passes no user context
CallWithoutContext(r, fn, arg) == [fn |-> fn, arg |-> arg, ctx |-> "nil"]
Call(r, fn, arg) == [fn |-> fn, arg |-> arg, ctx |-> r.UserContext]

LoopBody ==
    /\ UNCHANGED <<confVars, delimVars>>
    /\ pc = "body"
    /\ LET t   == Normalized(cfg, cur)
           arg == FilterArg(cfg, cur, t)
           nc  == IF cfg.normalize # "nil" THEN <<Call(cfg, "normalize", cur)>> ELSE <<>>
           fc  == IF ~cfg.filter.isNil THEN <<Call(cfg, "filter", arg)>> ELSE <<>>
       IN  IF Break(cfg, cur)
           THEN /\ pc' = IF cfg.loop = "part_000" /\ method = "StreamTokens" THEN "returned" ELSE "exit"
                /\ UNCHANGED <<ntoken, tokens, n, err, calls>>
           ELSE /\ calls' = calls \o nc \o fc
                /\ ntoken' = t
                /\ CASE Outcome(cfg, arg) = "Rejected" ->
                          /\ err' = newErrInvalid(t, n)
                          /\ pc' = "returned"
                          /\ UNCHANGED <<tokens, n>>
                     [] Outcome(cfg, arg) = "Skipped" ->
                          /\ n' = Offset(n, t)
                          /\ pc' = "scan"
                          /\ UNCHANGED <<tokens, err>>
                     [] OTHER ->
                          /\ n' = Offset(n, t)
                          /\ tokens' = IF method = "ReadTokens" THEN Append(tokens, t) ELSE tokens
                          /\ pc' = IF method = "ReadTokens" THEN "scan" ELSE "send"
                          /\ err' = err
    /\ UNCHANGED <<cfg, method, input, reads, recv, parked, outClosed, src, srcEnd, buf, serr, done, empties, cur, out, ctx, last, emitted>>

\* variant: the select drops the token it was to hand over
SendTokenDrops ==
    /\ UNCHANGED <<confVars, delimVars>>
    /\ pc = "send" /\ ~parked
    /\ recv
    /\ recv' = FALSE
    /\ pc' = "scan"
    /\ UNCHANGED <<cfg, method, input, reads, src, srcEnd, buf, serr, done, empties, cur, ntoken, tokens,
                   out, ctx, parked, outClosed, n, err, last, emitted, calls>>

\* StreamTokens, the select: a consumer is receiving and the channel out takes
\* the token (when ctx.Done() is closed as well, the select may take either
\* case)
SendToken ==
    /\ UNCHANGED <<confVars, delimVars>>
    /\ pc = "send" /\ ~parked
    /\ recv
    /\ recv' = FALSE
    /\ out' = Append(out, ntoken)
    /\ pc' = "scan"
    /\ UNCHANGED <<cfg, method, input, reads, src, srcEnd, buf, serr, done, empties, cur, ntoken, tokens,
                   ctx, parked, outClosed, n, err, last, emitted, calls>>

\* StreamTokens, the select: ctx.Done() is closed, the call returns ctx.Err()
CtxDone ==
    /\ UNCHANGED <<confVars, delimVars>>
    /\ pc = "send" /\ ~parked
    /\ ctx = "cancelled"
    /\ err' = ctxErr
    /\ pc' = "returned"
    /\ UNCHANGED <<cfg, method, input, reads, src, srcEnd, buf, serr, done, empties, cur, ntoken, tokens,
                   out, ctx, recv, parked, outClosed, n, last, emitted, calls>>

\* StreamTokens, the select: no consumer is receiving and ctx.Done() is open,
\* the select blocks
Park ==
    /\ UNCHANGED <<confVars, delimVars>>
    /\ pc = "send" /\ ~parked
    /\ ~recv /\ ctx = "live"
    /\ parked' = TRUE
    /\ UNCHANGED <<cfg, method, input, reads, src, srcEnd, buf, serr, done, empties, cur, pc, ntoken,
                   tokens, out, ctx, recv, outClosed, n, err, last, emitted, calls>>

\* the consumer's receive meets the blocked select: the channel out takes the
\* token and the loop goes on
Handoff ==
    /\ UNCHANGED <<confVars, delimVars>>
    /\ pc = "send" /\ parked
    /\ out' = Append(out, ntoken)
    /\ parked' = FALSE
    /\ pc' = "scan"
    /\ UNCHANGED <<cfg, method, input, reads, src, srcEnd, buf, serr, done, empties, cur, ntoken, tokens,
                   ctx, recv, outClosed, n, err, last, emitted, calls>>

\* variant: a cancellation that does not wake the blocked select
CancelParkedIgnored ==
    /\ UNCHANGED <<confVars, delimVars>>
    /\ pc = "send" /\ parked
    /\ ctx = "live"
    /\ ctx' = "cancelled"
    /\ UNCHANGED <<cfg, method, input, reads, src, srcEnd, buf, serr, done, empties, cur, pc, ntoken,
                   tokens, out, recv, parked, outClosed, n, err, last, emitted, calls>>

\* the caller cancels the context while the select blocks: the select takes
\* the case ctx.Done() and the call returns ctx.Err()
CancelParked ==
    /\ UNCHANGED <<confVars, delimVars>>
    /\ pc = "send" /\ parked
    /\ ctx = "live"
    /\ ctx' = "cancelled"
    /\ err' = ctxErr
    /\ pc' = "returned"
    /\ UNCHANGED <<cfg, method, input, reads, src, srcEnd, buf, serr, done, empties, cur, ntoken, tokens,
                   out, recv, parked, outClosed, n, last, emitted, calls>>

\* the caller cancels the context of a running StreamTokens that is not
\* blocked in its select
Cancel ==
    /\ UNCHANGED <<confVars, delimVars>>
    /\ method = "StreamTokens"
    /\ ctx = "live"
    /\ pc \notin {"returned", "panic"} /\ ~parked
    /\ ctx' = "cancelled"
    /\ UNCHANGED <<cfg, method, input, reads, src, srcEnd, buf, serr, done, empties, cur, pc, ntoken,
                   tokens, out, recv, parked, outClosed, n, err, last, emitted, calls>>

\* the consumer of the channel out starts a receive while no select blocks
Receive ==
    /\ UNCHANGED <<confVars, delimVars>>
    /\ method = "StreamTokens"
    /\ ~recv
    /\ pc \notin {"returned", "panic"} /\ ~parked
    /\ recv' = TRUE
    /\ UNCHANGED <<cfg, method, input, reads, src, srcEnd, buf, serr, done, empties, cur, pc, ntoken,
                   tokens, out, ctx, parked, outClosed, n, err, last, emitted, calls>>

\* variant: the return after the loop closes the channel out
LoopExitCloses ==
    /\ UNCHANGED <<confVars, delimVars>>
    /\ pc = "exit" \/ (pc = "scan" /\ done)
    /\ err' = IF serr = "fail" /\ cfg.FailOnError THEN newErrRead(serr) ELSE NoError
    /\ pc' = "returned"
    /\ outClosed' = (method = "StreamTokens")
    /\ UNCHANGED <<cfg, method, input, reads, recv, parked, src, srcEnd, buf, serr, done, empties, cur, ntoken, tokens, out,
                   ctx, n, last, emitted, calls>>

\* variant: the return after the loop reports the scanner's error whatever
\* FailOnError says
LoopExitAlwaysFails ==
    /\ UNCHANGED <<confVars, delimVars>>
    /\ pc = "exit" \/ (pc = "scan" /\ done)
    /\ err' = IF serr = "fail" THEN newErrRead(serr) ELSE NoError
    /\ pc' = "returned"
    /\ UNCHANGED <<cfg, method, input, reads, recv, parked, outClosed, src, srcEnd, buf, serr, done, empties, cur, ntoken, tokens, out,
                   ctx, n, last, emitted, calls>>

\* after the loop: scanner.Err() is nil for io.EOF
LoopExit ==
    /\ UNCHANGED <<confVars, delimVars>>
    /\ pc = "exit" \/ (pc = "scan" /\ done)
    /\ err' = IF serr = "fail" /\ cfg.FailOnError THEN newErrRead(serr) ELSE NoError
    /\ pc' = "returned"
    /\ UNCHANGED <<cfg, method, input, reads, recv, parked, outClosed, src, srcEnd, buf, serr, done, empties, cur, ntoken, tokens, out,
                   ctx, n, last, emitted, calls>>

(***************************************************************************)
(* Reader.Read: one Read of the source into a buffer p of k bytes. The     *)
(* source is the io.MultiReader of the readers: a Read takes bytes of the  *)
(* first reader that has some, never of two, and past the last reader the  *)
(* source returns its final error. buf is p[:n].                           *)
(***************************************************************************)
RECURSIVE DropExhausted(_)
DropExhausted(readers) ==
    IF readers # <<>> /\ Head(readers) = <<>> THEN DropExhausted(Tail(readers)) ELSE readers

ReaderRead(k) ==
    /\ UNCHANGED <<confVars, delimVars>>
    /\ method = "Read" /\ pc = "call"
    /\ LET readers == DropExhausted(src)
           m == IF readers = <<>> THEN 0
                ELSE IF k < Len(Head(readers)) THEN k ELSE Len(Head(readers))
       IN  /\ n' = m
           /\ buf' = IF readers = <<>> THEN <<>> ELSE Take(Head(readers), m)
           /\ src' = IF readers = <<>> THEN <<>>
                     ELSE <<Drop(Head(readers), m)>> \o Tail(readers)
           /\ serr' = IF readers = <<>> THEN srcEnd ELSE "nil"
           /\ err' = IF readers = <<>> THEN newErrRead(srcEnd) ELSE NoError
    /\ UNCHANGED <<cfg, method, input, reads, srcEnd, done, empties, cur, pc, ntoken, tokens, out,
                   ctx, recv, parked, outClosed, last, emitted, calls>>

Next ==
    \/ ScanRead \/ ScanSplit \/ LoopBody \/ LoopExit
    \/ \E k \in 1..MaxRead : ReaderRead(k)
    \/ SendToken \/ CtxDone \/ Park \/ Handoff
    \/ Cancel \/ CancelParked \/ Receive

Spec == Init /\ [][Next]_vars

(***************************************************************************)
(* StreamTokens with its scheduling. The goroutine of the call takes its   *)
(* next step when it has one (the Go scheduler runs a runnable goroutine); *)
(* a select that blocks is met by the consumer's receive or woken by the   *)
(* cancellation. The consumer and the canceller are free to act or not     *)
(* while the select does not block.                                        *)
(***************************************************************************)
StreamAlphabet == {"a", ","}

InitStream ==
    /\ method = "StreamTokens"
    /\ \E p \in StreamPolicies, dl \in StreamDelimiters :
          /\ cfg = Reader("reader.go", "none", dl, Delimiter(NoPattern, NoPattern),
                          "NormalizeTrimSpace", p.filter, p.foe, p.foi)
          /\ srcEnd = p.srcEnd
    /\ input \in Inputs(StreamAlphabet)
    /\ src \in Chunkings(input, MaxChunks)
    /\ reads = src
    /\ InitScanner
    /\ NoObjects
    /\ NoDelimiters

\* the steps of the goroutine that runs StreamTokens
Streamer ==
    \/ ScanRead \/ ScanSplit \/ LoopBody \/ LoopExit
    \/ SendToken \/ CtxDone \/ Park

\* the steps that end a blocked select
Unblock == Handoff \/ CancelParked

NextStream ==
    \/ ScanRead \/ ScanSplit \/ LoopBody \/ LoopExit
    \/ SendToken \/ CtxDone \/ Park \/ Handoff
    \/ Cancel \/ CancelParked \/ Receive

SpecStream == InitStream /\ [][NextStream]_vars /\ WF_vars(Streamer) /\ WF_vars(Unblock)

(***************************************************************************)
(* The Reader of part_000, which scans with its Delimiter's SplitFunc:     *)
(* a part_003 Delimiter (token and stop pattern) or a part_002 Delimiter   *)
(* (regexpr or str). No normalizer and no filter, so that tokens is the    *)
(* sequence of tokens the scanner delivers. With them, the new Reader of   *)
(* reader.go after SetDelimiterStr(""), and a Reader whose Read is called. *)
(***************************************************************************)
DelimAlphabet == {"a", "e", NL}

Delimiters003 ==
    { DefaultDelimiter,
      Delimiter(Pattern(NilRe, <<NL>>), Pattern(NilRe, <<"e">>)),
      Delimiter(Pattern(NilRe, <<NL>>), NoPattern),
      Delimiter(Pattern(Re({NL}, TRUE, FALSE), <<>>), Pattern(NilRe, <<"e">>)),
      Delimiter(Pattern(NilRe, <<"e", NL>>), Pattern(Re({"a"}, TRUE, FALSE), <<>>)) }

Delimiters002 ==
    { SetStr(DefaultDelimiter002, <<>>),
      Pattern(Re({NL, "e"}, TRUE, FALSE), <<>>) }

InitDelim ==
    /\ \/ /\ method = "ReadTokens"
          /\ \/ \E d \in Delimiters003 :
                  cfg = Reader("part_000", "part_003", NoPattern, d, "nil", NoFilter, TRUE, FALSE)
             \/ \E dl \in Delimiters002 :
                  cfg = Reader("part_000", "part_002", dl, Delimiter(NoPattern, NoPattern), "nil",
                               NoFilter, TRUE, FALSE)
             \/ cfg = SetDelimiterStr(NewReader_reader_go, <<>>)
             \/ cfg = SetEndDelimiter(Reader("part_000", "part_002", DefaultDelimiter002,
                                              Delimiter(NoPattern, NoPattern), "nil", NoFilter,
                                              TRUE, FALSE),
                                       SetStr(DefaultDelimiter002, <<"e">>))
          /\ srcEnd \in {"EOF", "fail"}
       \/ /\ method = "StreamTokens"
          /\ cfg = Reader("part_000", "part_003", NoPattern,
                          Delimiter(Pattern(NilRe, <<NL>>), Pattern(NilRe, <<"e">>)),
                          "nil", NoFilter, TRUE, FALSE)
          /\ srcEnd = "EOF"
       \/ /\ method = "Read"
          /\ cfg = Reader("part_000", "part_003", NoPattern, DefaultDelimiter, "nil", NoFilter,
                          TRUE, FALSE)
          /\ srcEnd \in {"EOF", "fail"}
    /\ input \in Inputs(DelimAlphabet)
    /\ src \in Chunkings(input, MaxChunks)
    /\ reads = src
    /\ InitScanner
    /\ NoObjects
    /\ NoDelimiters

SpecDelim == InitDelim /\ [][Next]_vars

(***************************************************************************)
(* The new Reader of reader.go as NewReader returns it, over inputs that   *)
(* hold lines of white space. The streaming and Read calls are those of    *)
(* InitDelim.                                                              *)
(***************************************************************************)
LineAlphabet == {"a", SP, NL}

InitDefault ==
    /\ \/ /\ method = "ReadTokens"
          /\ cfg = NewReader_reader_go
          /\ srcEnd \in {"EOF", "fail"}
       \/ /\ method = "StreamTokens"
          /\ cfg = Reader("part_000", "part_003", NoPattern,
                          Delimiter(Pattern(NilRe, <<NL>>), Pattern(NilRe, <<"e">>)),
                          "nil", NoFilter, TRUE, FALSE)
          /\ srcEnd = "EOF"
       \/ /\ method = "Read"
          /\ cfg = Reader("part_000", "part_003", NoPattern, DefaultDelimiter, "nil", NoFilter,
                          TRUE, FALSE)
          /\ srcEnd \in {"EOF", "fail"}
    /\ input \in Inputs(LineAlphabet)
    /\ src \in Chunkings(input, MaxChunks)
    /\ reads = src
    /\ InitScanner
    /\ NoObjects
    /\ NoDelimiters

SpecDefault == InitDefault /\ [][Next]_vars

(***************************************************************************)
(* Delimiters whose compiled expression matches the empty string: e* and   *)
(* e?, on the Delimiter of part_003, on the one of part_002 and on the     *)
(* Reader of reader.go. The streaming and Read calls are those of          *)
(* InitDelim.                                                              *)
(***************************************************************************)
EmptyMatching == { Re({"e"}, TRUE, TRUE), Re({"e"}, FALSE, TRUE) }

InitEmptyMatch ==
    /\ \/ /\ method = "ReadTokens"
          /\ \E re \in EmptyMatching :
                \/ cfg = Reader("part_000", "part_003", NoPattern,
                                Delimiter(Pattern(re, <<>>), NoPattern), "nil", NoFilter,
                                TRUE, FALSE)
                \/ cfg = Reader("part_000", "part_002", Pattern(re, <<>>),
                                Delimiter(NoPattern, NoPattern), "nil", NoFilter, TRUE, FALSE)
                \/ cfg = Reader("reader.go", "none", Pattern(re, <<>>),
                                Delimiter(NoPattern, NoPattern), "nil", NoFilter, TRUE, FALSE)
          /\ srcEnd \in {"EOF", "fail"}
       \/ /\ method = "StreamTokens"
          /\ cfg = Reader("part_000", "part_003", NoPattern,
                          Delimiter(Pattern(NilRe, <<NL>>), Pattern(NilRe, <<"e">>)),
                          "nil", NoFilter, TRUE, FALSE)
          /\ srcEnd = "EOF"
       \/ /\ method = "Read"
          /\ cfg = Reader("part_000", "part_003", NoPattern, DefaultDelimiter, "nil", NoFilter,
                          TRUE, FALSE)
          /\ srcEnd \in {"EOF", "fail"}
    /\ input \in Inputs(DelimAlphabet)
    /\ src \in Chunkings(input, MaxChunks)
    /\ reads = src
    /\ InitScanner
    /\ NoObjects
    /\ NoDelimiters

SpecEmptyMatch == InitEmptyMatch /\ [][Next]_vars

(***************************************************************************)
(* The configuration objects: the Reader of part_000 and the ReaderCloser  *)
(* of part_004, which embeds a *Reader and tracks the closeable readers.   *)
(* A struct is a record, a pointer the index of a struct in readerObjs or  *)
(* closerObjs, an io.Reader the sequence of the named sources it reads.    *)
(***************************************************************************)
NewReader ==
    [reader |-> <<"stdin">>, delimiter |-> DefaultDelimiter,
     endDelimiter |-> Delimiter(NoPattern, NoPattern), normalize |-> "NormalizeTrimSpace",
     filter |-> NoFilter, FailOnError |-> TRUE, FailOnInvalid |-> FALSE]

NewReaderCloser(addr) == [Reader |-> addr, closers |-> <<>>]

\* the setters of Reader, on the struct r
SetDelimiter(r, d) == [r EXCEPT !.delimiter = d]
SetNormalizer(r, normalizeFunc) == [r EXCEPT !.normalize = normalizeFunc]
SetFilter(r, filterFunc) == [r EXCEPT !.filter = filterFunc]
ReaderSetReaders(r, readers) ==
    [r EXCEPT !.reader = SetReaders([i \in 1..Len(readers) |-> <<readers[i]>>])]

\* the arguments the configuration calls are made with: "str" is a
\* strings.Reader, "f1", "f2" and "bad" are files
ArgDelimiters == { Delimiter(Pattern(NilRe, <<",">>), NoPattern) }
ArgNormalizers == { "nil" }
ArgFilters == { MinLength(2) }
ArgReaders == { <<"f1">>, <<"bad", "f2">> }

\* r.(io.Closer): a file is an io.Closer, a strings.Reader is not
IsCloser(x) == x \in {"f1", "f2", "f3", "bad", "stdin"}

\* c.Close() of a file, closed being the resources closed so far: the error it
\* returns. The file "bad" fails to close; a closed file fails to close again.
CloserClose(c, closed) ==
    IF c = "bad" THEN "close failed"
    ELSE IF \E i \in 1..Len(closed) : closed[i] = c THEN "already closed"
    ELSE "nil"

\* an error of kind ErrClose that wraps e
newErrClose(e) == [Kind |-> "ErrClose", Err |-> e, Token |-> <<>>, Index |-> -1]

\* the loop of ReaderCloser.Close over the closers left
RECURSIVE closeLoop(_, _, _)
closeLoop(closers, closed, firstErr) ==
    IF closers = <<>> THEN [closed |-> closed, firstErr |-> firstErr]
    ELSE LET e == CloserClose(Head(closers), closed)
         IN  closeLoop(Tail(closers), Append(closed, Head(closers)),
                       IF e # "nil" /\ firstErr = NoError THEN newErrClose(e) ELSE firstErr)

\* variant: a loop that returns at the first failure
RECURSIVE closeLoopStops(_, _, _)
closeLoopStops(closers, closed, firstErr) ==
    IF closers = <<>> THEN [closed |-> closed, firstErr |-> firstErr]
    ELSE LET e == CloserClose(Head(closers), closed)
         IN  IF e # "nil" THEN [closed |-> Append(closed, Head(closers)), firstErr |-> newErrClose(e)]
             ELSE closeLoopStops(Tail(closers), Append(closed, Head(closers)), firstErr)

CloseStopsAtFailure(closers, closed) == closeLoopStops(closers, closed, NoError)

\* ReaderCloser.Close on the closers of a struct: the resources closed
\* afterwards and the error returned
Close(closers, closed) == closeLoop(closers, closed, NoError)

\* ReaderCloser.SetReaders on the struct rc: the struct, the Reader structs and
\* the resources closed afterwards
ReaderCloserSetReaders(rc, readers, objs, closed) ==
    [rc     |-> [rc EXCEPT !.closers = SelectSeq(readers, IsCloser)],
     objs   |-> [objs EXCEPT ![rc.Reader] = ReaderSetReaders(@, readers)],
     closed |-> Close(rc.closers, closed).closed]

Returned(type, op, receiver, new, e) ==
    [n |-> ret.n + 1, type |-> type, op |-> op, recv |-> receiver, new |-> new, err |-> e]

\* Reader.AddReaders on the struct r
ReaderAddReaders(r, readers) ==
    [r EXCEPT !.reader = AddReaders(@, [i \in 1..Len(readers) |-> <<readers[i]>>])]

\* an error of kind ErrOpen that wraps e
newErrOpen(e) == [Kind |-> "ErrOpen", Err |-> e, Token |-> <<>>, Index |-> -1]

\* the paths FromFile is called with: the file "f3" opens, "missing" does not
ArgPaths == {"f3", "missing"}

\* a file is handed to a ReaderCloser once: the readers of a call are not
\* tracked, not closed and not read by the Reader of a ReaderCloser yet
Fresh(readers) ==
    \A i \in 1..Len(readers) :
        /\ \A j \in 1..Len(closeCalls) : closeCalls[j] # readers[i]
        /\ \A b \in DOMAIN closerObjs :
              /\ \A j \in 1..Len(closerObjs[b].closers) : closerObjs[b].closers[j] # readers[i]
              /\ LET rs == readerObjs[closerObjs[b].Reader].reader
                 IN  \A j \in 1..Len(rs) : rs[j] # readers[i]

\* Reader.FromString, Reader.FromBytes: newR := *r; newR.SetReaders(...); return &newR
Reader_FromString ==
    /\ UNCHANGED <<scanVars, delimVars>>
    /\ ret.n < MaxCalls
    /\ \E a \in DOMAIN readerObjs :
          /\ readerObjs' = Append(readerObjs, ReaderSetReaders(readerObjs[a], <<"str">>))
          /\ ret' = Returned("Reader", "FromString", a, Len(readerObjs) + 1, NoError)
    /\ UNCHANGED <<closerObjs, closeCalls>>

\* variant: WithDelimiter sets the delimiter of its receiver and returns a copy
Reader_WithDelimiterInPlace ==
    /\ UNCHANGED <<scanVars, delimVars>>
    /\ ret.n < MaxCalls
    /\ \E a \in DOMAIN readerObjs, d \in ArgDelimiters :
          /\ readerObjs' = Append([readerObjs EXCEPT ![a] = SetDelimiter(@, d)],
                                  SetDelimiter(readerObjs[a], d))
          /\ ret' = Returned("Reader", "WithDelimiter", a, Len(readerObjs) + 1, NoError)
    /\ UNCHANGED <<closerObjs, closeCalls>>

\* Reader.WithDelimiter
Reader_WithDelimiter ==
    /\ UNCHANGED <<scanVars, delimVars>>
    /\ ret.n < MaxCalls
    /\ \E a \in DOMAIN readerObjs, d \in ArgDelimiters :
          /\ readerObjs' = Append(readerObjs, SetDelimiter(readerObjs[a], d))
          /\ ret' = Returned("Reader", "WithDelimiter", a, Len(readerObjs) + 1, NoError)
    /\ UNCHANGED <<closerObjs, closeCalls>>

\* Reader.WithNormalizer
Reader_WithNormalizer ==
    /\ UNCHANGED <<scanVars, delimVars>>
    /\ ret.n < MaxCalls
    /\ \E a \in DOMAIN readerObjs, nf \in ArgNormalizers :
          /\ readerObjs' = Append(readerObjs, SetNormalizer(readerObjs[a], nf))
          /\ ret' = Returned("Reader", "WithNormalizer", a, Len(readerObjs) + 1, NoError)
    /\ UNCHANGED <<closerObjs, closeCalls>>

\* Reader.WithFilter
Reader_WithFilter ==
    /\ UNCHANGED <<scanVars, delimVars>>
    /\ ret.n < MaxCalls
    /\ \E a \in DOMAIN readerObjs, ff \in ArgFilters :
          /\ readerObjs' = Append(readerObjs, SetFilter(readerObjs[a], ff))
          /\ ret' = Returned("Reader", "WithFilter", a, Len(readerObjs) + 1, NoError)
    /\ UNCHANGED <<closerObjs, closeCalls>>

\* Reader.WithReaders
Reader_WithReaders ==
    /\ UNCHANGED <<scanVars, delimVars>>
    /\ ret.n < MaxCalls
    /\ \E a \in DOMAIN readerObjs, readers \in ArgReaders :
          /\ readerObjs' = Append(readerObjs, ReaderSetReaders(readerObjs[a], readers))
          /\ ret' = Returned("Reader", "WithReaders", a, Len(readerObjs) + 1, NoError)
    /\ UNCHANGED <<closerObjs, closeCalls>>

\* ReaderCloser.FromString, ReaderCloser.FromBytes: newR := *rc copies the
\* pointer to the Reader and the slice closers; newR.SetReaders(...) is
\* ReaderCloser.SetReaders on the copy
ReaderCloser_FromString ==
    /\ UNCHANGED <<scanVars, delimVars>>
    /\ ret.n < MaxCalls
    /\ \E b \in DOMAIN closerObjs :
          LET set == ReaderCloserSetReaders(closerObjs[b], <<"str">>, readerObjs, closeCalls)
          IN  /\ closerObjs' = Append(closerObjs, set.rc)
              /\ readerObjs' = set.objs
              /\ closeCalls' = set.closed
              /\ ret' = Returned("ReaderCloser", "FromString", b, Len(closerObjs) + 1, NoError)

\* ReaderCloser.WithReaders
ReaderCloser_WithReaders ==
    /\ UNCHANGED <<scanVars, delimVars>>
    /\ ret.n < MaxCalls
    /\ \E b \in DOMAIN closerObjs, readers \in ArgReaders :
          LET set == ReaderCloserSetReaders(closerObjs[b], readers, readerObjs, closeCalls)
          IN  /\ Fresh(readers)
              /\ closerObjs' = Append(closerObjs, set.rc)
              /\ readerObjs' = set.objs
              /\ closeCalls' = set.closed
              /\ ret' = Returned("ReaderCloser", "WithReaders", b, Len(closerObjs) + 1, NoError)

\* ReaderCloser.FromFile: os.Open(path), then as FromString
ReaderCloser_FromFile ==
    /\ UNCHANGED <<scanVars, delimVars>>
    /\ ret.n < MaxCalls
    /\ \E b \in DOMAIN closerObjs, path \in ArgPaths :
          IF path = "missing"
          THEN /\ ret' = Returned("ReaderCloser", "FromFile", b, 0, newErrOpen("no such file"))
               /\ UNCHANGED <<closerObjs, readerObjs, closeCalls>>
          ELSE LET set == ReaderCloserSetReaders(closerObjs[b], <<path>>, readerObjs, closeCalls)
               IN  /\ Fresh(<<path>>)
                   /\ closerObjs' = Append(closerObjs, set.rc)
                   /\ readerObjs' = set.objs
                   /\ closeCalls' = set.closed
                   /\ ret' = Returned("ReaderCloser", "FromFile", b, Len(closerObjs) + 1, NoError)

\* ReaderCloser.SetReaders, on the struct itself
ReaderCloser_SetReaders ==
    /\ UNCHANGED <<scanVars, delimVars>>
    /\ ret.n < MaxCalls
    /\ \E b \in DOMAIN closerObjs, readers \in ArgReaders :
          LET set == ReaderCloserSetReaders(closerObjs[b], readers, readerObjs, closeCalls)
          IN  /\ Fresh(readers)
              /\ closerObjs' = [closerObjs EXCEPT ![b] = set.rc]
              /\ readerObjs' = set.objs
              /\ closeCalls' = set.closed
              /\ ret' = Returned("ReaderCloser", "SetReaders", b, b, NoError)

\* rc.AddReaders: the method of the embedded *Reader, Reader.AddReaders
ReaderCloser_AddReaders ==
    /\ UNCHANGED <<scanVars, delimVars>>
    /\ ret.n < MaxCalls
    /\ \E b \in DOMAIN closerObjs, readers \in ArgReaders :
          /\ Fresh(readers)
          /\ readerObjs' = [readerObjs EXCEPT ![closerObjs[b].Reader] = ReaderAddReaders(@, readers)]
          /\ ret' = Returned("ReaderCloser", "AddReaders", b, b, NoError)
    /\ UNCHANGED <<closerObjs, closeCalls>>

\* ReaderCloser.WithDelimiter: newR.SetDelimiter(d) is the setter of the
\* embedded *Reader, which the copy shares with its original
ReaderCloser_WithDelimiter ==
    /\ UNCHANGED <<scanVars, delimVars>>
    /\ ret.n < MaxCalls
    /\ \E b \in DOMAIN closerObjs, d \in ArgDelimiters :
          /\ closerObjs' = Append(closerObjs, closerObjs[b])
          /\ readerObjs' = [readerObjs EXCEPT ![closerObjs[b].Reader] = SetDelimiter(@, d)]
          /\ ret' = Returned("ReaderCloser", "WithDelimiter", b, Len(closerObjs) + 1, NoError)
    /\ UNCHANGED closeCalls

\* ReaderCloser.WithNormalizer
ReaderCloser_WithNormalizer ==
    /\ UNCHANGED <<scanVars, delimVars>>
    /\ ret.n < MaxCalls
    /\ \E b \in DOMAIN closerObjs, nf \in ArgNormalizers :
          /\ closerObjs' = Append(closerObjs, closerObjs[b])
          /\ readerObjs' = [readerObjs EXCEPT ![closerObjs[b].Reader] = SetNormalizer(@, nf)]
          /\ ret' = Returned("ReaderCloser", "WithNormalizer", b, Len(closerObjs) + 1, NoError)
    /\ UNCHANGED closeCalls

\* ReaderCloser.WithFilter
ReaderCloser_WithFilter ==
    /\ UNCHANGED <<scanVars, delimVars>>
    /\ ret.n < MaxCalls
    /\ \E b \in DOMAIN closerObjs, ff \in ArgFilters :
          /\ closerObjs' = Append(closerObjs, closerObjs[b])
          /\ readerObjs' = [readerObjs EXCEPT ![closerObjs[b].Reader] = SetFilter(@, ff)]
          /\ ret' = Returned("ReaderCloser", "WithFilter", b, Len(closerObjs) + 1, NoError)
    /\ UNCHANGED closeCalls

\* ReaderCloser.Close
ReaderCloser_Close ==
    /\ UNCHANGED <<scanVars, delimVars>>
    /\ ret.n < MaxCalls
    /\ \E b \in DOMAIN closerObjs :
          LET res == Close(closerObjs[b].closers, closeCalls)
          IN  /\ closeCalls' = res.closed
              /\ closerObjs' = [closerObjs EXCEPT ![b].closers = <<>>]
              /\ ret' = Returned("ReaderCloser", "Close", b, b, res.firstErr)
    /\ UNCHANGED readerObjs

\* a Reader from NewReader() and a ReaderCloser from NewReaderCloser(), which
\* allocates its own Reader; no read call runs
InitConfig ==
    /\ readerObjs = <<NewReader, NewReader>>
    /\ closerObjs = <<NewReaderCloser(2)>>
    /\ closeCalls = <<>>
    /\ ret = NoRet
    /\ cfg = Reader("part_000", "part_003", NoPattern, DefaultDelimiter, "nil", NoFilter, TRUE, FALSE)
    /\ method = "ReadTokens"
    /\ srcEnd = "EOF"
    /\ input = <<>>
    /\ src = <<>>
    /\ reads = <<>>
    /\ InitScanner
    /\ NoDelimiters

NextConfig ==
    \/ Reader_FromString \/ Reader_WithDelimiter \/ Reader_WithNormalizer
    \/ Reader_WithFilter \/ Reader_WithReaders
    \/ ReaderCloser_FromString \/ ReaderCloser_WithReaders \/ ReaderCloser_WithDelimiter
    \/ ReaderCloser_WithNormalizer \/ ReaderCloser_WithFilter
    \/ ReaderCloser_FromFile \/ ReaderCloser_SetReaders \/ ReaderCloser_AddReaders
    \/ ReaderCloser_Close

SpecConfig == InitConfig /\ [][NextConfig]_vars

\* panic("empty regexp is not allowed")
Panicked == [Kind |-> "panic", Err |-> "empty regexp is not allowed", Token |-> <<>>, Index |-> -1]

\* a call on the Delimiter at address a that stores d in place, one that
\* allocates d, and one that panics
Stored(op, a, d) ==
    /\ delimObjs' = [delimObjs EXCEPT ![a] = d]
    /\ ret' = Returned("Delimiter", op, a, 0, NoError)
Allocated(op, a, d) ==
    /\ delimObjs' = Append(delimObjs, d)
    /\ ret' = Returned("Delimiter", op, a, Len(delimObjs) + 1, NoError)
Panics(op, a) ==
    /\ delimObjs' = delimObjs
    /\ ret' = Returned("Delimiter", op, a, 0, Panicked)

Stored002(op, a, d) ==
    /\ delim002Objs' = [delim002Objs EXCEPT ![a] = d]
    /\ ret' = Returned("Delimiter002", op, a, 0, NoError)
Allocated002(op, a, d) ==
    /\ delim002Objs' = Append(delim002Objs, d)
    /\ ret' = Returned("Delimiter002", op, a, Len(delim002Objs) + 1, NoError)

\* DefaultDelimiter() and NewDelimiter() of part_003
Delimiter_DefaultDelimiter ==
    /\ UNCHANGED <<scanVars, readerObjs, closerObjs, closeCalls, delim002Objs, goReader, held>>
    /\ ret.n < MaxSets
    /\ Allocated("DefaultDelimiter", 0, DefaultDelimiter)

Delimiter_NewDelimiter ==
    /\ UNCHANGED <<scanVars, readerObjs, closerObjs, closeCalls, delim002Objs, goReader, held>>
    /\ ret.n < MaxSets
    /\ Allocated("NewDelimiter", 0, DefaultDelimiter)

Delimiter_SetTokenRegexp ==
    /\ UNCHANGED <<scanVars, readerObjs, closerObjs, closeCalls, delim002Objs, goReader, held>>
    /\ ret.n < MaxSets
    /\ \E a \in DOMAIN delimObjs, regexpr \in ArgRegexps :
          Stored("SetTokenRegexp", a, SetTokenRegexp(delimObjs[a], regexpr))

Delimiter_SetTokenStr ==
    /\ UNCHANGED <<scanVars, readerObjs, closerObjs, closeCalls, delim002Objs, goReader, held>>
    /\ ret.n < MaxSets
    /\ \E a \in DOMAIN delimObjs, s \in ArgStrs :
          Stored("SetTokenStr", a, SetTokenStr(delimObjs[a], s))

Delimiter_SetTokenRegexpFromString ==
    /\ UNCHANGED <<scanVars, readerObjs, closerObjs, closeCalls, delim002Objs, goReader, held>>
    /\ ret.n < MaxSets
    /\ \E a \in DOMAIN delimObjs, expr \in ArgExprs :
          IF expr = <<>> THEN Panics("SetTokenRegexpFromString", a)
          ELSE Stored("SetTokenRegexpFromString", a, SetTokenRegexpFromString(delimObjs[a], expr))

Delimiter_SetStopRegexp ==
    /\ UNCHANGED <<scanVars, readerObjs, closerObjs, closeCalls, delim002Objs, goReader, held>>
    /\ ret.n < MaxSets
    /\ \E a \in DOMAIN delimObjs, regexpr \in ArgRegexps :
          Stored("SetStopRegexp", a, SetStopRegexp(delimObjs[a], regexpr))

Delimiter_SetStopStr ==
    /\ UNCHANGED <<scanVars, readerObjs, closerObjs, closeCalls, delim002Objs, goReader, held>>
    /\ ret.n < MaxSets
    /\ \E a \in DOMAIN delimObjs, s \in ArgStrs :
          Stored("SetStopStr", a, SetStopStr(delimObjs[a], s))

Delimiter_SetStopRegexpFromString ==
    /\ UNCHANGED <<scanVars, readerObjs, closerObjs, closeCalls, delim002Objs, goReader, held>>
    /\ ret.n < MaxSets
    /\ \E a \in DOMAIN delimObjs, expr \in ArgExprs :
          IF expr = <<>> THEN Panics("SetStopRegexpFromString", a)
          ELSE Stored("SetStopRegexpFromString", a, SetStopRegexpFromString(delimObjs[a], expr))

Delimiter_WithTokenRegexp ==
    /\ UNCHANGED <<scanVars, readerObjs, closerObjs, closeCalls, delim002Objs, goReader, held>>
    /\ ret.n < MaxSets
    /\ \E a \in DOMAIN delimObjs, regexpr \in ArgRegexps :
          Allocated("WithTokenRegexp", a, WithTokenRegexp(delimObjs[a], regexpr))

\* variant: a WithTokenStr on a pointer receiver, which stores into it
Delimiter_WithTokenStrInPlace ==
    /\ UNCHANGED <<scanVars, readerObjs, closerObjs, closeCalls, delim002Objs, goReader, held>>
    /\ ret.n < MaxSets
    /\ \E a \in DOMAIN delimObjs, s \in ArgStrs :
          /\ delimObjs' = [delimObjs EXCEPT ![a] = WithTokenStr(delimObjs[a], s)]
          /\ ret' = Returned("Delimiter", "WithTokenStr", a, a, NoError)

Delimiter_WithTokenStr ==
    /\ UNCHANGED <<scanVars, readerObjs, closerObjs, closeCalls, delim002Objs, goReader, held>>
    /\ ret.n < MaxSets
    /\ \E a \in DOMAIN delimObjs, s \in ArgStrs :
          Allocated("WithTokenStr", a, WithTokenStr(delimObjs[a], s))

Delimiter_WithTokenRegexpFromString ==
    /\ UNCHANGED <<scanVars, readerObjs, closerObjs, closeCalls, delim002Objs, goReader, held>>
    /\ ret.n < MaxSets
    /\ \E a \in DOMAIN delimObjs, s \in ArgExprs :
          IF s = <<>> THEN Panics("WithTokenRegexpFromString", a)
          ELSE Allocated("WithTokenRegexpFromString", a, WithTokenRegexpFromString(delimObjs[a], s))

Delimiter_WithStopRegexp ==
    /\ UNCHANGED <<scanVars, readerObjs, closerObjs, closeCalls, delim002Objs, goReader, held>>
    /\ ret.n < MaxSets
    /\ \E a \in DOMAIN delimObjs, regexpr \in ArgRegexps :
          Allocated("WithStopRegexp", a, WithStopRegexp(delimObjs[a], regexpr))

Delimiter_WithStopStr ==
    /\ UNCHANGED <<scanVars, readerObjs, closerObjs, closeCalls, delim002Objs, goReader, held>>
    /\ ret.n < MaxSets
    /\ \E a \in DOMAIN delimObjs, s \in ArgStrs :
          Allocated("WithStopStr", a, WithStopStr(delimObjs[a], s))

Delimiter_WithStopRegexpFromString ==
    /\ UNCHANGED <<scanVars, readerObjs, closerObjs, closeCalls, delim002Objs, goReader, held>>
    /\ ret.n < MaxSets
    /\ \E a \in DOMAIN delimObjs, s \in ArgExprs :
          IF s = <<>> THEN Panics("WithStopRegexpFromString", a)
          ELSE Allocated("WithStopRegexpFromString", a, WithStopRegexpFromString(delimObjs[a], s))

\* d.SplitFunc(): the function returned keeps the pointer d
Delimiter_SplitFunc ==
    /\ UNCHANGED <<scanVars, readerObjs, closerObjs, closeCalls, delimObjs, delim002Objs, goReader>>
    /\ ret.n < MaxSets
    /\ \E a \in DOMAIN delimObjs :
          /\ held' = [held EXCEPT !.split = a]
          /\ ret' = Returned("Delimiter", "SplitFunc", a, 0, NoError)

\* Reader.SetDelimiter of part_000: the Reader keeps the pointer d
Reader_SetDelimiter ==
    /\ UNCHANGED <<scanVars, readerObjs, closerObjs, closeCalls, delimObjs, delim002Objs, goReader>>
    /\ ret.n < MaxSets
    /\ \E a \in DOMAIN delimObjs :
          /\ held' = [held EXCEPT !.reader = a]
          /\ ret' = Returned("Reader", "SetDelimiter", 0, 0, NoError)

\* DefaultDelimiter() of part_002 and its calls
Delimiter002_DefaultDelimiter ==
    /\ UNCHANGED <<scanVars, readerObjs, closerObjs, closeCalls, delimObjs, goReader, held>>
    /\ ret.n < MaxSets
    /\ Allocated002("DefaultDelimiter", 0, DefaultDelimiter002)

Delimiter002_SetRegexp ==
    /\ UNCHANGED <<scanVars, readerObjs, closerObjs, closeCalls, delimObjs, goReader, held>>
    /\ ret.n < MaxSets
    /\ \E a \in DOMAIN delim002Objs, regexpr \in ArgRegexps :
          Stored002("SetRegexp", a, SetRegexp(delim002Objs[a], regexpr))

Delimiter002_SetStr ==
    /\ UNCHANGED <<scanVars, readerObjs, closerObjs, closeCalls, delimObjs, goReader, held>>
    /\ ret.n < MaxSets
    /\ \E a \in DOMAIN delim002Objs, s \in ArgStrs :
          Stored002("SetStr", a, SetStr(delim002Objs[a], s))

Delimiter002_SetRegexpFromString ==
    /\ UNCHANGED <<scanVars, readerObjs, closerObjs, closeCalls, delimObjs, goReader, held>>
    /\ ret.n < MaxSets
    /\ \E a \in DOMAIN delim002Objs, expr \in ArgExprs :
          Stored002("SetRegexpFromString", a, SetRegexpFromString(delim002Objs[a], expr))

Delimiter002_WithRegexp ==
    /\ UNCHANGED <<scanVars, readerObjs, closerObjs, closeCalls, delimObjs, goReader, held>>
    /\ ret.n < MaxSets
    /\ \E a \in DOMAIN delim002Objs, regexpr \in ArgRegexps :
          Allocated002("WithRegexp", a, WithRegexp(delim002Objs[a], regexpr))

Delimiter002_WithStr ==
    /\ UNCHANGED <<scanVars, readerObjs, closerObjs, closeCalls, delimObjs, goReader, held>>
    /\ ret.n < MaxSets
    /\ \E a \in DOMAIN delim002Objs, s \in ArgStrs :
          Allocated002("WithStr", a, WithStr(delim002Objs[a], s))

Delimiter002_WithRegexpFromString ==
    /\ UNCHANGED <<scanVars, readerObjs, closerObjs, closeCalls, delimObjs, goReader, held>>
    /\ ret.n < MaxSets
    /\ \E a \in DOMAIN delim002Objs, s \in ArgExprs :
          Allocated002("WithRegexpFromString", a, WithRegexpFromString(delim002Objs[a], s))

\* NewReader() of reader.go and the delimiter setters of its Reader
ReaderGo_NewReader ==
    /\ UNCHANGED <<scanVars, readerObjs, closerObjs, closeCalls, delimObjs, delim002Objs, held>>
    /\ ret.n < MaxSets
    /\ goReader' = NewReader_reader_go
    /\ ret' = Returned("Reader_reader_go", "NewReader", 0, 0, NoError)

ReaderGo_SetDelimiterStr ==
    /\ UNCHANGED <<scanVars, readerObjs, closerObjs, closeCalls, delimObjs, delim002Objs, held>>
    /\ ret.n < MaxSets
    /\ \E s \in ArgStrs :
          /\ goReader' = SetDelimiterStr(goReader, s)
          /\ ret' = Returned("Reader_reader_go", "SetDelimiterStr", 0, 0, NoError)

ReaderGo_SetDelimiter ==
    /\ UNCHANGED <<scanVars, readerObjs, closerObjs, closeCalls, delimObjs, delim002Objs, held>>
    /\ ret.n < MaxSets
    /\ \E regexpr \in ArgRegexps :
          /\ goReader' = SetDelimiterRegexp(goReader, regexpr)
          /\ ret' = Returned("Reader_reader_go", "SetDelimiter", 0, 0, NoError)

ReaderGo_SetDelimiterFromString ==
    /\ UNCHANGED <<scanVars, readerObjs, closerObjs, closeCalls, delimObjs, delim002Objs, held>>
    /\ ret.n < MaxSets
    /\ \E expr \in ArgExprs :
          /\ goReader' = SetDelimiterFromString(goReader, expr)
          /\ ret' = Returned("Reader_reader_go", "SetDelimiterFromString", 0, 0, NoError)

InitSetters ==
    /\ readerObjs = <<>>
    /\ closerObjs = <<>>
    /\ closeCalls = <<>>
    /\ ret = NoRet
    /\ NoDelimiters
    /\ cfg = Reader("part_000", "part_003", NoPattern, DefaultDelimiter, "nil", NoFilter, TRUE, FALSE)
    /\ method = "ReadTokens"
    /\ srcEnd = "EOF"
    /\ input = <<>>
    /\ src = <<>>
    /\ reads = <<>>
    /\ InitScanner

NextSetters ==
    \/ Delimiter_DefaultDelimiter \/ Delimiter_NewDelimiter
    \/ Delimiter_SetTokenRegexp \/ Delimiter_SetTokenStr \/ Delimiter_SetTokenRegexpFromString
    \/ Delimiter_SetStopRegexp \/ Delimiter_SetStopStr \/ Delimiter_SetStopRegexpFromString
    \/ Delimiter_WithTokenRegexp \/ Delimiter_WithTokenStr \/ Delimiter_WithTokenRegexpFromString
    \/ Delimiter_WithStopRegexp \/ Delimiter_WithStopStr \/ Delimiter_WithStopRegexpFromString
    \/ Delimiter_SplitFunc \/ Reader_SetDelimiter
    \/ Delimiter002_DefaultDelimiter
    \/ Delimiter002_SetRegexp \/ Delimiter002_SetStr \/ Delimiter002_SetRegexpFromString
    \/ Delimiter002_WithRegexp \/ Delimiter002_WithStr \/ Delimiter002_WithRegexpFromString
    \/ ReaderGo_NewReader
    \/ ReaderGo_SetDelimiterStr \/ ReaderGo_SetDelimiter \/ ReaderGo_SetDelimiterFromString

SpecSetters == InitSetters /\ [][NextSetters]_vars


(***************************************************************************)
(* Properties.                                                             *)
(***************************************************************************)
Front(s) == Take(s, Len(s) - 1)
IsPrefix(D, s) == Len(D) <= Len(s) /\ Take(s, Len(D)) = D
NoEmptyPiece(ps) == \A i \in 1..Len(ps) : ps[i] # <<>>
WithoutEmptyTail(ps) == IF ps # <<>> /\ ps[Len(ps)] = <<>> THEN Front(ps) ELSE ps
BeforeFirstEmpty(ps) ==
    LET e == { i \in 1..Len(ps) : ps[i] = <<>> }
    IN  IF e = {} THEN ps ELSE Take(ps, MinOf(e) - 1)

\* the reference split of a byte sequence on the literal D: the pieces between
\* successive leftmost non-overlapping occurrences of D; an empty remainder
\* after the last occurrence is no piece
RECURSIVE RefPieces(_, _, _)
RefPieces(rest, acc, D) ==
    IF rest = <<>> THEN <<acc>>
    ELSE IF IsPrefix(D, rest) THEN <<acc>> \o RefPieces(Drop(rest, Len(D)), <<>>, D)
    ELSE RefPieces(Tail(rest), Append(acc, Head(rest)), D)

RefSplit(in, D) == WithoutEmptyTail(RefPieces(in, <<>>, D))

\* the reference split on the expression [cls] or [cls]+: a match starts at
\* the leftmost byte of cls and, for [cls]+, takes the whole run
RECURSIVE SkipRun(_, _)
SkipRun(rest, cls) == IF rest # <<>> /\ Head(rest) \in cls THEN SkipRun(Tail(rest), cls) ELSE rest

RECURSIVE RePieces(_, _, _)
RePieces(rest, acc, re) ==
    IF rest = <<>> THEN <<acc>>
    ELSE IF Head(rest) \in re.cls
         THEN <<acc>> \o RePieces(IF re.many THEN SkipRun(rest, re.cls) ELSE Tail(rest), <<>>, re)
    ELSE RePieces(Tail(rest), Append(acc, Head(rest)), re)

RefSplitRe(in, re) == WithoutEmptyTail(RePieces(in, <<>>, re))

\* the raw tokens the loop body has handled, and those it has normalized (the
\* empty token that ends the loop of reader.go is not normalized)
Handled == IF pc = "body" THEN Front(emitted) ELSE emitted
Processed == IF Handled # <<>> /\ Handled[Len(Handled)] = <<>> THEN Front(Handled) ELSE Handled
NormalizedTokens == [i \in 1..Len(Processed) |-> Normalized(cfg, Processed[i])]
Accepts(t) == cfg.filter.isNil \/ FilterMinLength(cfg.filter.min, t)

LiteralCase ==
    /\ cfg.loop = "reader.go" /\ method = "ReadTokens"
    /\ cfg.delimiter.re.isNil /\ cfg.delimiter.str # <<>>
    /\ cfg.normalize = "nil" /\ cfg.filter.isNil

\* C1 (as stated): with a non-empty literal token boundary D, no stop boundary,
\* the identity normalizer and no filter, batch reading returns the reference
\* split of the input on D.
C1_Original ==
    (pc = "returned" /\ LiteralCase) => tokens = RefSplit(input, cfg.delimiter.str)

\* C1 (amended): with a non-empty literal token boundary D, the identity
\* normalizer and no filter, ReadTokens of reader.go returns the reference
\* split of the input on D cut off before its first empty piece: the read loop
\* leaves at the first empty token.
C1_SplitUntilEmpty ==
    (pc = "returned" /\ LiteralCase)
        => tokens = BeforeFirstEmpty(RefSplit(input, cfg.delimiter.str))

C1_Witness ==
    /\ pc = "returned" /\ LiteralCase
    /\ Len(tokens) >= 2
    /\ Len(cfg.delimiter.str) = 2

RegexCase ==
    /\ cfg.loop = "reader.go" /\ method = "ReadTokens"
    /\ ~cfg.delimiter.re.isNil
    /\ cfg.normalize = "nil" /\ cfg.filter.isNil

\* C7: with a compiled-pattern token boundary, batch reading returns exactly
\* the texts between successive leftmost matches of the pattern in the input,
\* a run matched as one boundary being consumed as a single boundary. Stated
\* for the inputs whose texts between matches are all non-empty.
C7_Original ==
    (pc = "returned" /\ RegexCase /\ NoEmptyPiece(RefSplitRe(input, cfg.delimiter.re)))
        => tokens = RefSplitRe(input, cfg.delimiter.re)

\* C8: in batch mode with fail-on-invalid set, the first token the filter
\* rejects makes the call return at once with the tokens accepted before it
\* and an Invalid error that carries the normalized rejected token; nothing is
\* scanned, normalized or filtered after it.
C8_FailFast ==
    (method = "ReadTokens" /\ cfg.FailOnInvalid) =>
        LET NT  == NormalizedTokens
            rej == { i \in 1..Len(NT) : ~Accepts(NT[i]) }
        IN  IF rej = {}
            THEN err.Kind # "ErrInvalid" /\ tokens = NT
            ELSE /\ rej = {Len(NT)}
                 /\ pc = "returned"
                 /\ err.Kind = "ErrInvalid" /\ err.Token = NT[Len(NT)]
                 /\ tokens = Front(NT)
                 /\ last.token = Processed[Len(NT)]
                 /\ ~ENABLED Next

C8_Witness ==
    /\ method = "ReadTokens" /\ cfg.FailOnInvalid /\ pc = "returned" /\ err.Kind = "ErrInvalid"
    /\ Len(tokens) >= 1
    /\ err.Token # Processed[Len(Processed)]

\* C9: in batch mode with fail-on-invalid unset, the result is the subsequence,
\* in scan order, of the normalized tokens the filter accepts; a rejection is
\* never an error and never ends the scan.
C9_SkipRejected ==
    (method = "ReadTokens" /\ ~cfg.FailOnInvalid) =>
        /\ tokens = SelectSeq(NormalizedTokens, Accepts)
        /\ err.Kind # "ErrInvalid"
        /\ pc = "returned" =>
              \/ src = <<>> /\ buf = <<>>
              \/ Handled # <<>> /\ Handled[Len(Handled)] = <<>>

C9_Witness ==
    /\ method = "ReadTokens" /\ ~cfg.FailOnInvalid /\ pc = "returned"
    /\ Len(NormalizedTokens) = 2
    /\ ~Accepts(NormalizedTokens[1])
    /\ tokens = <<NormalizedTokens[2]>>

\* C10: for each scanned token the normalizer is applied first and the filter
\* is evaluated on the normalized text; what the caller is delivered, in the
\* batch result, on the channel or in the Invalid error, is the normalized text.
CallsFor(raw) ==
    (IF cfg.normalize # "nil"
     THEN <<[fn |-> "normalize", arg |-> raw, ctx |-> cfg.UserContext]>> ELSE <<>>)
    \o (IF ~cfg.filter.isNil
        THEN <<[fn |-> "filter", arg |-> Normalized(cfg, raw), ctx |-> cfg.UserContext]>> ELSE <<>>)

\* the normalized texts the filter has accepted, in scan order
AcceptedTexts ==
    SelectSeq(IF err.Kind = "ErrInvalid" THEN Front(NormalizedTokens) ELSE NormalizedTokens, Accepts)

\* StreamTokens holds an accepted text the channel has not taken
Undelivered == pc = "send" \/ err.Kind = "context.Canceled"

C10_NormalizeThenFilter ==
    /\ calls = Concat([i \in 1..Len(Processed) |-> CallsFor(Processed[i])])
    /\ err.Kind = "ErrInvalid" => err.Token = NormalizedTokens[Len(Processed)]
    /\ method = "ReadTokens" => tokens = AcceptedTexts /\ out = <<>>
    /\ method = "StreamTokens" =>
          /\ tokens = <<>>
          /\ IF Undelivered
             THEN AcceptedTexts # <<>> /\ out = Front(AcceptedTexts)
                  /\ ntoken = AcceptedTexts[Len(AcceptedTexts)]
             ELSE out = AcceptedTexts

C10_Witness ==
    /\ pc = "returned" /\ method = "StreamTokens"
    /\ cfg.normalize # "nil" /\ ~cfg.filter.isNil
    /\ Len(out) >= 1
    /\ out[1] # Processed[1]
    /\ Len(calls) >= 2
    /\ calls[1].fn = "normalize" /\ calls[2].fn = "filter"
    /\ calls[2].arg # calls[1].arg

(***************************************************************************)
(* Batch mode and streaming mode.                                          *)
(***************************************************************************)
\* the tokens the caller has been delivered
Delivered == IF method = "StreamTokens" THEN out ELSE tokens

\* the result of the scan/process loop of reader.go, as a function of the
\* Reader r, the chunks the source returns and the way the source ends: the
\* accepted texts in order and the kind of the terminal error. b is the
\* scanner's buffer, rest the chunks not yet read, se the scanner's error.
RECURSIVE LoopResult(_, _, _, _, _, _)
LoopRead(r, end, b, rest, se, acc) ==
    IF rest = <<>> THEN LoopResult(r, end, b, rest, end, acc)
    ELSE LoopResult(r, end, b \o Head(rest), Tail(rest), se, acc)

LoopResult(r, end, b, rest, se, acc) ==
    LET atEOF == se # "nil"
        fin(a) == [tokens |-> a, kind |-> IF se = "fail" /\ r.FailOnError THEN "ErrRead" ELSE "nil"]
    IN  IF b = <<>> /\ ~atEOF THEN LoopRead(r, end, b, rest, se, acc)
        ELSE LET s  == Split(r, b, atEOF)
                 nt == IF r.normalize = "NormalizeTrimSpace" THEN NormalizeTrimSpace(s.token) ELSE s.token
                 ok == r.filter.isNil \/ Len(nt) >= r.filter.min
                 a2 == IF ok THEN Append(acc, nt) ELSE acc
             IN  IF s.nilToken
                 THEN (IF s.err = "ErrFinalToken" \/ atEOF THEN fin(acc)
                       ELSE LoopRead(r, end, b, rest, se, acc))
                 ELSE IF s.token = <<>> THEN fin(acc)
                 ELSE IF ~ok /\ r.FailOnInvalid THEN [tokens |-> acc, kind |-> "ErrInvalid"]
                 ELSE IF s.err = "ErrFinalToken" THEN fin(a2)
                 ELSE LoopResult(r, end, Drop(b, s.advance), rest, se, a2)

\* C11: for the same input, delivered by the source in the same Reads, and the
\* same configuration, a call that no cancellation has cut short delivers on
\* the channel the tokens batch mode returns, and ends with an error of the
\* same kind: in either mode the tokens and the kind are those of the one
\* scan/process loop.
C11_StreamEqualsBatch ==
    (pc = "returned" /\ err.Kind # "context.Canceled") =>
        LET ref == LoopResult(cfg, srcEnd, <<>>, reads, "nil", <<>>)
        IN  /\ Delivered = ref.tokens
            /\ err.Kind = ref.kind

C11_Witness ==
    /\ pc = "returned" /\ method = "StreamTokens" /\ ctx = "live"
    /\ Len(out) >= 2
    /\ err.Kind = "ErrRead"

\* C17 as stated: reading the sources given to SetReaders and then to
\* AddReaders delivers the tokens of one source that holds their contents
\* concatenated in that order.
C17_Original ==
    (pc = "returned" /\ err.Kind # "context.Canceled") =>
        Delivered = LoopResult(cfg, srcEnd, <<>>, NewStringReader(input), "nil", <<>>).tokens

C12_CancelWhileBlocked ==
    [][ /\ (pc = "send" /\ parked /\ ctx = "live" /\ ctx' = "cancelled") =>
             /\ pc' = "returned"
             /\ err' = ctxErr
             /\ UNCHANGED <<out, src, buf, emitted, cur>>
        /\ (pc = "returned" /\ err = ctxErr) =>
             UNCHANGED <<pc, err, out, src, buf, emitted, cur>> ]_vars

C12_Witness ==
    /\ pc = "returned" /\ parked /\ ctx = "cancelled"
    /\ err = ctxErr
    /\ ntoken # <<>> /\ out = <<>>
    /\ buf # <<>>

\* C13 as stated: once the context is cancelled no step sends a token on the
\* channel out.
C13_Original ==
    [][ ctx = "cancelled" => out' = out ]_vars

\* C14: StreamTokens never closes the channel out, on whichever path it
\* returns.
C14_NeverCloses ==
    ~outClosed

C14_Witness ==
    /\ pc = "returned" /\ method = "StreamTokens"
    /\ err.Kind = "ErrInvalid"
    /\ out # <<>>
    /\ ~outClosed

(***************************************************************************)
(* Configuration calls and Close.                                          *)
(***************************************************************************)
\* the call the step makes
Called(type) == ret'.n # ret.n /\ ret'.type = type

\* the error Close is to return for the closers cs: the first failure, wrapped
FirstFailure(cs, closed) ==
    LET e(i) == CloserClose(cs[i], closed \o Take(cs, i - 1))
        failing == { i \in 1..Len(cs) : e(i) # "nil" }
    IN  IF failing = {} THEN NoError
        ELSE LET first == CHOOSE i \in failing : \A j \in failing : i <= j
             IN  [Kind |-> "ErrClose", Err |-> e(first), Token |-> <<>>, Index |-> -1]

\* C18: Close calls Close on every tracked resource, in the order of
\* registration, whether or not an earlier one fails, and returns the first
\* failure wrapped in an ErrClose, nil when none fails.
C18_CloseAll ==
    [][ (Called("ReaderCloser") /\ ret'.op = "Close") =>
            LET cs == closerObjs[ret'.recv].closers
            IN  /\ closeCalls' = closeCalls \o cs
                /\ ret'.err = FirstFailure(cs, closeCalls) ]_vars

C18_Witness ==
    /\ ret.type = "ReaderCloser" /\ ret.op = "Close"
    /\ closeCalls = <<"bad", "f2">>
    /\ ret.err.Kind = "ErrClose" /\ ret.err.Err = "close failed"

ReaderFields ==
    {"reader", "delimiter", "endDelimiter", "normalize", "filter", "FailOnError", "FailOnInvalid"}

ChangedField(op) ==
    CASE op \in {"FromString", "WithReaders"} -> "reader"
      [] op = "WithDelimiter" -> "delimiter"
      [] op = "WithNormalizer" -> "normalize"
      [] op = "WithFilter" -> "filter"

\* C19: a With* or From* method of Reader returns a new Reader that differs
\* from its receiver in the one field the method sets, and leaves every field
\* of the receiver, and of every other Reader, as it was.
C19_ReaderCopyOnWrite ==
    [][ Called("Reader") =>
            LET a == ret'.recv
                new == ret'.new
            IN  /\ new = Len(readerObjs) + 1 /\ Len(readerObjs') = new
                /\ \A i \in DOMAIN readerObjs : readerObjs'[i] = readerObjs[i]
                /\ \A f \in ReaderFields \ {ChangedField(ret'.op)} :
                      readerObjs'[new][f] = readerObjs[a][f]
                /\ ret'.op = "FromString" => readerObjs'[new].reader = <<"str">>
                /\ ret'.op = "WithReaders" => readerObjs'[new].reader \in ArgReaders
                /\ ret'.op = "WithDelimiter" => readerObjs'[new].delimiter \in ArgDelimiters
                /\ ret'.op = "WithNormalizer" => readerObjs'[new].normalize \in ArgNormalizers
                /\ ret'.op = "WithFilter" => readerObjs'[new].filter \in ArgFilters ]_vars

C19_Witness ==
    /\ ret.type = "Reader" /\ ret.op = "WithDelimiter"
    /\ readerObjs[ret.new].delimiter # readerObjs[ret.recv].delimiter
    /\ readerObjs[ret.recv].delimiter = DefaultDelimiter
    /\ readerObjs[ret.new].filter = MinLength(2)

\* C20 as stated: a With* or From* method of ReaderCloser leaves the source,
\* the delimiter, the normalizer, the filter and the tracked closers of its
\* receiver as they were.
C20_Original ==
    [][ (Called("ReaderCloser") /\ ret'.err = NoError
         /\ ret'.op \in {"FromString", "FromFile", "WithReaders", "WithDelimiter",
                         "WithNormalizer", "WithFilter"}) =>
            LET b == ret'.recv
            IN  /\ closerObjs'[b] = closerObjs[b]
                /\ readerObjs'[closerObjs'[b].Reader] = readerObjs[closerObjs[b].Reader] ]_vars

(***************************************************************************)
(* Properties of the scanner steps of the token+stop Delimiter.            *)
(***************************************************************************)
IsD003 == cfg.dkind = "part_003"
TokenPattern == IF IsD003 THEN cfg.d.token ELSE cfg.delimiter
StopPattern == IF IsD003 THEN cfg.d.stop ELSE NoPattern

\* the matches in the buffer of the latest split call
LastToken == find(TokenPattern, last.data)
LastStop == IF enabled(StopPattern) THEN find(StopPattern, last.data) ELSE [idx |-> -1, width |-> 0]
LastLooked == last.called /\ ~(last.atEOF /\ last.data = <<>>)

\* the tokens the scanner delivers when the source returns data in one Read
RECURSIVE ScanAll(_, _, _)
ScanAll(r, data, atEOF) ==
    IF data = <<>> /\ ~atEOF THEN ScanAll(r, data, TRUE)
    ELSE LET s == Split(r, data, atEOF)
         IN  IF s.err = "ErrFinalToken" THEN (IF s.nilToken THEN <<>> ELSE <<s.token>>)
             ELSE IF ~s.nilToken
                  THEN <<s.token>> \o (IF s.advance = 0 THEN <<>> ELSE ScanAll(r, Drop(data, s.advance), atEOF))
             ELSE IF atEOF THEN <<>>
             ELSE ScanAll(r, data, TRUE)

\* C2: for a fixed input and Delimiter, the tokens the incremental scanner
\* emits are the same for every way the input is delivered in partial buffers:
\* they are the tokens emitted when the whole input arrives in one buffer
\* (for a read that no cancellation has cut short).
C2_Original ==
    (pc = "returned" /\ err.Kind # "context.Canceled") => emitted = ScanAll(cfg, input, FALSE)

\* the precedence with ties resolved for the stop boundary
StopWinsTies(tokenIdx, stopIdx) == stopIdx >= 0 /\ (tokenIdx < 0 \/ stopIdx <= tokenIdx)

\* C3: in a scanner step, whenever a stop match exists and either no token
\* match exists or stopStart <= tokenStart, the stop boundary wins: the step
\* emits buffer[0:stopStart] without consuming the stop match, or ends the
\* scan when stopStart = 0.
C3_Original ==
    (IsD003 /\ LastLooked /\ StopWinsTies(LastToken.idx, LastStop.idx)) =>
        IF LastStop.idx > 0
        THEN ~last.nilToken /\ last.token = Take(last.data, LastStop.idx) /\ last.advance = LastStop.idx
        ELSE last.nilToken /\ last.err = "ErrFinalToken"

\* C4: once the stop boundary wins with stopStart > 0, buffer[0:stopStart] is
\* emitted, and no later scanner step emits another token, whatever bytes
\* follow the stop match.
StopWonLater == IsD003 /\ LastLooked /\ StopWins(LastToken.idx, LastStop.idx) /\ LastStop.idx > 0

C4_StopTokenIsFinal ==
    /\ [](StopWonLater =>
            /\ ~last.nilToken /\ last.token = Take(last.data, LastStop.idx)
            /\ emitted # <<>> /\ emitted[Len(emitted)] = last.token
            /\ IsPrefix(Drop(last.data, LastStop.idx), buf))
    /\ [][(StopWonLater \/ done) => (emitted' = emitted /\ (StopWonLater' \/ done'))]_vars
    /\ []((pc = "returned" /\ done /\ err.Kind # "context.Canceled") => Delivered = emitted)

C4_Witness ==
    /\ IsD003 /\ pc = "returned" /\ done /\ last.err = "ErrFinalToken"
    /\ Len(emitted) = 1 /\ emitted[1] # <<>>
    /\ input = emitted[1] \o last.data
    /\ Len(last.data) >= 2
    /\ NL \in { last.data[i] : i \in 2..Len(last.data) }

\* C5: when the stop boundary wins at index 0 the scan ends at once and emits
\* no token; an input that consists only of the stop boundary yields no token.
C5_Original ==
    /\ (IsD003 /\ LastLooked /\ StopWins(LastToken.idx, LastStop.idx) /\ LastStop.idx = 0)
          => (last.nilToken /\ last.err = "ErrFinalToken")
    /\ (IsD003 /\ pc = "returned" /\ StopPattern.re.isNil /\ input = StopPattern.str)
          => emitted = <<>>

\* C6: when no boundary matches and the source is exhausted, a non-empty
\* remaining buffer is emitted exactly once, as the last token, and an empty
\* remaining buffer produces no token.
NoMatchAtEOF == LastLooked /\ last.atEOF /\ LastToken.idx < 0 /\ LastStop.idx < 0
EmptyAtEOF == last.called /\ last.atEOF /\ last.data = <<>>

C6_RemainderOnce ==
    /\ [](NoMatchAtEOF =>
            /\ ~last.nilToken /\ last.token = last.data
            /\ emitted # <<>> /\ emitted[Len(emitted)] = last.data
            /\ buf = <<>>)
    /\ [](EmptyAtEOF => last.nilToken)
    /\ [][(NoMatchAtEOF \/ EmptyAtEOF) => emitted' = emitted]_vars
    /\ []((pc = "returned" /\ EmptyAtEOF /\ err.Kind # "context.Canceled") => Delivered = emitted)

C6_Witness ==
    /\ pc = "returned" /\ EmptyAtEOF
    /\ TokenPattern = Pattern(NilRe, <<NL>>)
    /\ Len(emitted) = 2 /\ emitted[2] # <<>>
    /\ input = emitted[1] \o <<NL>> \o emitted[2]

(***************************************************************************)
(* Scanner steps that deliver nothing.                                     *)
(***************************************************************************)
\* C26: when neither the token pattern nor the stop pattern matches the
\* buffer and the source is not exhausted, the split call advances by zero
\* bytes, returns no token and no error, and the buffer holds the same bytes
\* until the next Read adds to them.
NoMatchNotAtEOF == LastLooked /\ ~last.atEOF /\ LastToken.idx < 0 /\ LastStop.idx < 0

C26_NeedMoreData ==
    NoMatchNotAtEOF =>
        /\ last.advance = 0 /\ last.nilToken /\ last.err = "nil"
        /\ pc \in {"read", "scan"}
        /\ IsPrefix(last.data, buf)
        /\ (pc = "read" \/ serr # "nil") => buf = last.data

C26_Witness ==
    /\ NoMatchNotAtEOF /\ pc = "read"
    /\ IsD003 /\ enabled(StopPattern)
    /\ Len(buf) >= 2 /\ emitted # <<>>

\* C27: with the buffer fully consumed and the source at its end, the split
\* call returns no token and advances by nothing, however often it is called,
\* and the scanner step that makes it delivers no token, leaves the buffer
\* empty, and changes neither the scanner's error nor the result of the call.
C27_NothingLeft ==
    /\ [](LET s == Split(cfg, <<>>, TRUE)
          IN  s.advance = 0 /\ s.nilToken /\ s.err \in {"nil", "ErrFinalToken"})
    /\ [][ (pc = "scan" /\ ~done /\ buf = <<>> /\ serr # "nil" /\ pc' # pc) =>
              /\ last'.called /\ last'.atEOF /\ last'.data = <<>>
              /\ last'.advance = 0 /\ last'.nilToken
              /\ pc' = "exit"
              /\ UNCHANGED <<buf, serr, emitted, cur, tokens, out, err>> ]_vars

C27_Witness ==
    /\ EmptyAtEOF /\ pc = "returned"
    /\ IsD003 /\ emitted # <<>>
    /\ err = NoError

(***************************************************************************)
(* The running offset.                                                     *)
(***************************************************************************)
RECURSIVE SumLen(_)
SumLen(ts) == IF ts = <<>> THEN 0 ELSE Len(Head(ts)) + SumLen(Tail(ts))

\* C28: the offset n is the sum of the lengths of the normalized tokens the
\* loop has accepted or skipped, no delimiter counted, and the Index of an
\* ErrInvalid is that sum over the tokens before the rejected one; what is
\* delivered is the result of the scan/process loop, in which no offset occurs.
C28_RunningOffset ==
    /\ (method # "Read" /\ err.Kind # "ErrInvalid") => n = SumLen(NormalizedTokens)
    /\ err.Kind = "ErrInvalid" =>
          /\ err.Index = SumLen(Front(NormalizedTokens))
          /\ n = err.Index
    /\ (pc = "returned" /\ err.Kind # "context.Canceled") =>
          Delivered = LoopResult(cfg, srcEnd, <<>>, reads, "nil", <<>>).tokens

C28_Witness ==
    /\ pc = "returned" /\ err.Kind = "ErrInvalid"
    /\ err.Index = 2 /\ Len(tokens) = 1
    /\ Len(input) = 4

(***************************************************************************)
(* The empty token that ends the loop of reader.go.                        *)
(***************************************************************************)
HasEmpty(ts) == \E i \in 1..Len(ts) : ts[i] = <<>>

\* C30: in the Reader of reader.go the first empty raw token ends the scan:
\* no token is scanned after it, the call returns a nil error, and what it
\* delivers are the accepted tokens among those scanned before it, in
\* ReadTokens and in StreamTokens.
C30_EmptyTokenEnds ==
    (cfg.loop = "reader.go" /\ HasEmpty(emitted)) =>
        /\ ~HasEmpty(Front(emitted))
        /\ pc \in {"body", "exit", "returned"}
        /\ pc = "returned" =>
              /\ err = NoError
              /\ Delivered = SelectSeq([i \in 1..(Len(emitted) - 1) |-> Normalized(cfg, emitted[i])],
                                       Accepts)

C30_Witness ==
    /\ cfg.loop = "reader.go" /\ method = "StreamTokens" /\ pc = "returned"
    /\ Len(emitted) = 2 /\ emitted[2] = <<>>
    /\ Len(out) = 1
    /\ buf # <<>>
    /\ err = NoError

(***************************************************************************)
(* The errors the Reader returns.                                          *)
(***************************************************************************)
\* C29: an error of Read, ReadTokens or StreamTokens is nil, a context
\* error, an ErrRead or an ErrInvalid; a failed read of the source is
\* returned by Read as an ErrRead; an ErrRead matches ErrRead, not ErrInvalid,
\* and unwraps to the error the source returned, which errors.Is finds too;
\* an ErrInvalid matches ErrInvalid, not ErrRead, and unwraps to nothing; and
\* no step changes an error that has been returned.
C29_ErrorChain ==
    /\ [](/\ err.Kind \in {"nil", "context.Canceled", "ErrRead", "ErrInvalid"}
          /\ (method = "Read" /\ serr # "nil") => err.Kind = "ErrRead"
          /\ err.Kind = "ErrRead" =>
                /\ Is(err, "ErrRead") /\ ~Is(err, "ErrInvalid")
                /\ serr # "nil" /\ Unwrap(err) = serr
                /\ errorsIs(err, "ErrRead") /\ errorsIs(err, serr)
          /\ err.Kind = "ErrInvalid" =>
                /\ Is(err, "ErrInvalid") /\ ~Is(err, "ErrRead")
                /\ Unwrap(err) = "nil"
                /\ errorsIs(err, "ErrInvalid") /\ ~errorsIs(err, "ErrRead"))
    /\ [][err # NoError => err' = err]_vars

C29_Witness ==
    /\ method = "Read" /\ srcEnd = "fail"
    /\ reads # <<>> /\ src = <<>>
    /\ Is(err, "ErrRead") /\ Unwrap(err) = "fail"

(***************************************************************************)
(* The empty literal delimiter.                                            *)
(***************************************************************************)
NewlineDelimited ==
    /\ method = "ReadTokens" /\ cfg.dkind \in {"none", "part_002"}
    /\ ~enabled(cfg.endDelimiter)
    /\ cfg.delimiter = Pattern(NilRe, <<NL>>)

\* C24: SetDelimiterStr("") of reader.go and SetStr("") of part_002 store the
\* literal newline and no expression, whatever the delimiter was; and a
\* ReadTokens of a Reader so configured returns the pieces of the input
\* between newlines (in reader.go, those before the first empty piece).
C24_EmptyMeansNewline ==
    /\ \A s \in ArgStrs :
          /\ SetDelimiterStr(SetDelimiterStr(NewReader_reader_go, s), <<>>).delimiter
                = Pattern(NilRe, <<NL>>)
          /\ \A d \in Delimiters002 : SetStr(SetStr(d, s), <<>>) = Pattern(NilRe, <<NL>>)
    /\ (NewlineDelimited /\ pc = "returned" /\ err = NoError) =>
          tokens = IF cfg.loop = "reader.go"
                   THEN BeforeFirstEmpty(RefSplit(input, <<NL>>))
                   ELSE RefSplit(input, <<NL>>)

C24_Witness ==
    /\ cfg = SetDelimiterStr(NewReader_reader_go, <<>>)
    /\ pc = "returned" /\ err = NoError
    /\ Len(tokens) = 2 /\ Len(input) = 3

(***************************************************************************)
(* The Delimiter objects under the configuration calls.                    *)
(***************************************************************************)
SetOps == {"SetTokenRegexp", "SetTokenStr", "SetTokenRegexpFromString",
           "SetStopRegexp", "SetStopStr", "SetStopRegexpFromString"}
WithOps == {"WithTokenRegexp", "WithTokenStr", "WithTokenRegexpFromString",
            "WithStopRegexp", "WithStopStr", "WithStopRegexpFromString"}
DelimiterCall(ops) == ret' # ret /\ ret'.type = "Delimiter" /\ ret'.op \in ops
\* the bytes the split functions are compared on
Probes == Inputs(DelimAlphabet)
SameSplit(d1, d2) ==
    \A data \in Probes, atEOF \in BOOLEAN :
        DelimiterSplitFunc(d1, data, atEOF) = DelimiterSplitFunc(d2, data, atEOF)

\* C21 (as stated): no configuration call on a Delimiter changes the
\* boundaries of the Delimiter a Reader holds, nor the results of a split
\* function obtained from SplitFunc.
C21_Original ==
    [][ /\ (held.reader # 0 /\ held'.reader = held.reader) =>
              delimObjs'[held.reader] = delimObjs[held.reader]
        /\ (held.split # 0 /\ held'.split = held.split) =>
              SameSplit(delimObjs'[held.split], delimObjs[held.split]) ]_vars

\* C21 (amended): a With* call changes no Delimiter that exists and returns a
\* new one, so the Delimiter a Reader holds and the split function obtained
\* from the receiver keep their boundaries; a Set* call stores into its
\* receiver and into no other Delimiter, and nothing but a Set* call changes
\* a Delimiter.
C21_WithCopiesSetStores ==
    [][ /\ DelimiterCall(WithOps) =>
              /\ \A a \in DOMAIN delimObjs : delimObjs'[a] = delimObjs[a]
              /\ held' = held
              /\ ret'.err = NoError =>
                    /\ ret'.new = Len(delimObjs) + 1
                    /\ DOMAIN delimObjs' = 1..ret'.new
        /\ \A a \in DOMAIN delimObjs :
              delimObjs'[a] # delimObjs[a] => (DelimiterCall(SetOps) /\ ret'.recv = a) ]_vars

C21_Witness ==
    /\ ret.type = "Delimiter" /\ ret.op = "WithTokenStr"
    /\ held.reader = ret.recv /\ held.split = ret.recv
    /\ delimObjs[ret.recv] = DefaultDelimiter
    /\ delimObjs[ret.new].token = Pattern(NilRe, <<"e">>)

\* C22 (as stated): after any sequence of constructions and Set*/With*
\* calls, every Delimiter's token pattern is enabled: that of part_003 and
\* that of part_002.
C22_Original ==
    /\ \A a \in DOMAIN delimObjs : enabled(delimObjs[a].token)
    /\ \A a \in DOMAIN delim002Objs : enabled(delim002Objs[a])

OneForm(p) == p.re.isNil \/ p.str = <<>>

\* C23: after any sequence of constructions and configuration calls, no
\* pattern holds a literal and a compiled expression at once: the token and
\* stop patterns of the Delimiters of part_003, the Delimiters of part_002 and
\* the delimiter fields of the Reader of reader.go; and the call that sets one
\* form leaves the other empty.
C23_NeverBothForms ==
    /\ \A a \in DOMAIN delimObjs : OneForm(delimObjs[a].token) /\ OneForm(delimObjs[a].stop)
    /\ \A a \in DOMAIN delim002Objs : OneForm(delim002Objs[a])
    /\ OneForm(goReader.delimiter)
    /\ (ret.type = "Delimiter" /\ ret.err = NoError) =>
          /\ ret.op \in {"SetTokenRegexp", "SetTokenRegexpFromString"} =>
                delimObjs[ret.recv].token.str = <<>>
          /\ ret.op = "SetTokenStr" => delimObjs[ret.recv].token.re.isNil
          /\ ret.op \in {"SetStopRegexp", "SetStopRegexpFromString"} =>
                delimObjs[ret.recv].stop.str = <<>>
          /\ ret.op = "SetStopStr" => delimObjs[ret.recv].stop.re.isNil
          /\ ret.op \in {"WithTokenRegexp", "WithTokenRegexpFromString"} =>
                delimObjs[ret.new].token.str = <<>>
          /\ ret.op = "WithTokenStr" => delimObjs[ret.new].token.re.isNil
          /\ ret.op \in {"WithStopRegexp", "WithStopRegexpFromString"} =>
                delimObjs[ret.new].stop.str = <<>>
          /\ ret.op = "WithStopStr" => delimObjs[ret.new].stop.re.isNil

\* a Delimiter born with the literal token newline has had a compiled
\* expression set as its token
C23_Witness ==
    /\ ret.type = "Delimiter" /\ ret.op = "SetTokenRegexp"
    /\ ~delimObjs[ret.recv].token.re.isNil
    /\ delimObjs[ret.recv].token.str = <<>>
    /\ delim002Objs # <<>> /\ ~delim002Objs[1].re.isNil

FreshDelimiter == DelimiterCall({"DefaultDelimiter", "NewDelimiter"})
FreshReader == ret' # ret /\ ret'.type = "Reader_reader_go" /\ ret'.op = "NewReader"
ReaderDefaults(r) ==
    /\ r.delimiter = Pattern(NilRe, <<NL>>)
    /\ r.normalize = "NormalizeTrimSpace"
    /\ r.filter.isNil
    /\ r.FailOnError /\ ~r.FailOnInvalid

EndDelimited ==
    /\ cfg.loop = "part_000" /\ method = "ReadTokens"
    /\ cfg.delimiter.re.isNil /\ cfg.delimiter.str # <<>>
    /\ cfg.endDelimiter.re.isNil /\ cfg.endDelimiter.str # <<>>

\* the pieces up to the first one that follows a token delimiter and starts
\* with the end delimiter E
UpToDelimiterThenEnd(ps, E) ==
    LET hits == { i \in 2..Len(ps) : IsPrefix(E, ps[i]) }
    IN  IF hits = {} THEN ps ELSE Take(ps, MinOf(hits) - 1)

\* C31 (as stated): with the token delimiter D and the end delimiter E,
\* ReadTokens returns the pieces of the input between the D up to the first
\* D followed by E, and all of them when the input has no D followed by E:
\* an E elsewhere does not stop the scan.
C31_Original ==
    (EndDelimited /\ pc = "returned" /\ err = NoError) =>
        tokens = UpToDelimiterThenEnd(RefSplit(input, cfg.delimiter.str), cfg.endDelimiter.str)

(***************************************************************************)
(* The error of a cancelled StreamTokens.                                  *)
(***************************************************************************)
\* C32 (as stated): a StreamTokens whose context was cancelled before it
\* returned returns ctx.Err(), never nil and never another error.
C32_Original ==
    (method = "StreamTokens" /\ pc = "returned" /\ ctx = "cancelled") => err = ctxErr

(***************************************************************************)
(* The calls of the normalizer and of the filter in a batch read.          *)
(***************************************************************************)
CallsOf(fn) == SelectSeq(calls, LAMBDA c : c.fn = fn)
ArgsOf(fn) == [i \in 1..Len(CallsOf(fn)) |-> CallsOf(fn)[i].arg]
BatchWithNormalizer == method = "ReadTokens" /\ cfg.loop = "reader.go" /\ cfg.normalize # "nil"

\* C33 (as stated): in a batch read the normalizer is called exactly once
\* for each raw token the scanner has delivered to the loop, in scan order.
C33_Original ==
    BatchWithNormalizer => ArgsOf("normalize") = Handled

\* C33 (amended): in a batch read the normalizer is called exactly once for
\* each raw token scanned except the empty token that ends the read, in scan
\* order; the filter is called at most once per token, right after the
\* normalizer's call for that token and on its result; every call is handed
\* the Reader's user context, which no step changes.
C33_OncePerHandledToken ==
    /\ [](BatchWithNormalizer =>
            /\ ArgsOf("normalize") = Processed
            /\ Len(CallsOf("filter")) <= Len(Processed)
            /\ \A i \in 1..Len(calls) :
                  /\ calls[i].ctx = cfg.UserContext
                  /\ calls[i].fn = "filter" =>
                        /\ i > 1 /\ calls[i - 1].fn = "normalize"
                        /\ calls[i].arg = Normalized(cfg, calls[i - 1].arg))
    /\ [][cfg'.UserContext = cfg.UserContext]_vars

C33_Witness ==
    /\ BatchWithNormalizer /\ cfg.UserContext = "uctx" /\ pc = "returned"
    /\ Len(emitted) = 2 /\ emitted[2] = <<>>
    /\ Len(calls) = 2 /\ calls[2].fn = "filter" /\ calls[2].ctx = "uctx"
    /\ calls[2].arg # calls[1].arg

(***************************************************************************)
(* The resources a ReaderCloser tracks.                                    *)
(***************************************************************************)
Supplies == {"SetReaders", "WithReaders", "FromFile", "AddReaders"}
ReadersOf(c) == readerObjs'[c.Reader].reader

\* C34 (as stated): after SetReaders, WithReaders, FromFile or AddReaders on
\* a ReaderCloser, every closeable reader of the ReaderCloser the call
\* configured that is still open is among its tracked closers.
C34_Original ==
    [][ (Called("ReaderCloser") /\ ret'.op \in Supplies /\ ret'.err = NoError) =>
            LET c == closerObjs'[ret'.new]
            IN  \A i \in 1..Len(ReadersOf(c)) :
                    LET x == ReadersOf(c)[i]
                    IN  (IsCloser(x) /\ x # "stdin"
                         /\ \A j \in 1..Len(closeCalls') : closeCalls'[j] # x)
                        => \E j \in 1..Len(c.closers) : c.closers[j] = x ]_vars

\* C38 (as stated): no resource is closed twice, and the ReaderCloser Close
\* was called on tracks nothing afterwards.
C38_Original ==
    /\ \A i, j \in 1..Len(closeCalls) : closeCalls[i] = closeCalls[j] => i = j
    /\ (ret.type = "ReaderCloser" /\ ret.op = "Close") => closerObjs[ret.recv].closers = <<>>

(***************************************************************************)
(* The default configuration.                                              *)
(***************************************************************************)
\* C39 (as stated): ReadTokens of the Reader NewReader returns (delimiter
\* "\n", NormalizeTrimSpace, no filter) never holds the empty string among
\* the tokens it returns.
C39_Original ==
    (method = "ReadTokens" /\ cfg = NewReader_reader_go) =>
        \A i \in 1..Len(tokens) : tokens[i] # <<>>

(***************************************************************************)
(* The token cut short by a failing source.                                *)
(***************************************************************************)
AfterFailure ==
    /\ method = "ReadTokens" /\ cfg.loop = "reader.go" /\ serr = "fail"
    /\ last.called /\ last.atEOF /\ ~last.nilToken

\* C36 (as stated): a token ReadTokens scans after the source has failed
\* was ended by a match of the delimiter.
C36_Original == AfterFailure => last.advance > Len(last.token)

\* C36: a token ReadTokens scans after the source has failed was ended by a
\* match of the delimiter, or it is all the bytes that were left in the
\* buffer, taken as the last token as at the end of the input: the buffer is
\* empty after it.
C36_RemainderAsAtEnd ==
    AfterFailure =>
        \/ last.advance > Len(last.token)
        \/ /\ last.token = last.data
           /\ last.advance = Len(last.data)
           /\ buf = <<>>

C36_Witness ==
    /\ AfterFailure /\ pc = "body"
    /\ cfg.normalize = "nil" /\ cfg.filter = NoFilter /\ cfg.FailOnError
    /\ last.token = last.data /\ last.token = <<"a">> /\ buf = <<>>
    /\ Len(emitted) = 2 /\ tokens = <<emitted[1]>>

(***************************************************************************)
(* Progress of the scanner.                                                *)
(***************************************************************************)
\* C35 (as stated): when ReadTokens has taken a token from the scanner and
\* goes on scanning, the split call that gave the token consumed at least
\* one byte of the buffer.
C35_Original ==
    (method = "ReadTokens" /\ pc \in {"scan", "read"} /\ ~done
     /\ last.called /\ ~last.nilToken) =>
        last.advance >= 1

(***************************************************************************)
(* StreamTokens returns.                                                   *)
(***************************************************************************)
\* C37: under SpecStream (the goroutine runs while it can, a blocked select
\* is met by a receive or woken by the cancellation) every StreamTokens
\* returns; and until it has returned, the call has a step to take unless
\* its select blocks - the wait for the bytes of the source always ends with
\* bytes, the end of the input or the source's error.
C37_StreamReturns ==
    /\ [](pc \notin {"returned", "panic"} /\ ~parked => ENABLED Streamer)
    /\ [](pc # "panic")
    /\ <>(pc = "returned")

C37_Witness ==
    /\ method = "StreamTokens" /\ pc = "send" /\ parked
    /\ ctx = "live" /\ Len(out) = 1 /\ ntoken = <<"a", "a">>

====
